---- MODULE Spec2Model ----
(***************************************************************************)
(* Model of the external-dns webhook provider for OPNsense Unbound.        *)
(*                                                                         *)
(* The provider (unboundProvider) turns the host overrides and host        *)
(* aliases of the backend into endpoints (Records) and applies a batch of  *)
(* endpoint changes to the backend (ApplyChanges).  The backend is the     *)
(* api.API interface; its behaviour follows the in-memory fakeAPI of the   *)
(* provider tests, with host aliases listed per host override as the       *)
(* client's ListHostAliases does.  Every remote call may fail.             *)
(*                                                                         *)
(* Strings are sequences of one-character strings, so that splitting a DNS *)
(* name at its first "." and joining hostname and domain are computed.     *)
(***************************************************************************)
EXTENDS Integers, Sequences, FiniteSets, TLC

VARIABLES
    hostOverrides,          \* backend: the host overrides, in backend order
    hostAliases,            \* backend: the host aliases, in backend order
    nextID,                 \* backend: the next ID it assigns
    initial,                \* the backend as it was before any operation
    pc,                     \* position of ApplyChanges
    i,                      \* index of the entry the current phase is at
    last,                   \* the step ApplyChanges took most recently
    changes,                \* the batch given to ApplyChanges
    listed,                 \* local hostOverrides of ApplyChanges
    aRecordsByDNSName,      \* local lookup table of host overrides
    cnameRecordsByDNSName,  \* local lookup table of host aliases
    calls,                  \* remote calls issued by ApplyChanges, in order
    err,                    \* what ApplyChanges returned
    recResult,              \* what the last Records() returned
    recErr,                 \* the error the last Records() returned
    recCalls,               \* remote calls issued by the last Records()
    endpoints,              \* the slice given to AdjustEndpoints (changed in place)
    adjInput,               \* the endpoints as they were before AdjustEndpoints
    adjResult,              \* what the last AdjustEndpoints returned
    adjErr,                 \* how the last AdjustEndpoints ended
    adjRuns,                \* number of AdjustEndpoints calls so far
    clientCall,             \* the last call of a method of unboundClient
    httpResponse,           \* the HTTP response that call got
    clientReturn            \* what that call returned

vars == <<hostOverrides, hostAliases, nextID, initial, pc, i, last, changes,
          listed, aRecordsByDNSName, cnameRecordsByDNSName, calls, err,
          recResult, recErr, recCalls,
          endpoints, adjInput, adjResult, adjErr, adjRuns,
          clientCall, httpResponse, clientReturn>>

backend == <<hostOverrides, hostAliases>>

-----------------------------------------------------------------------------
(* Bounds *)

\* Largest number of entries (Delete + Create + Update pairs) of a batch.
MaxBatch == 2

\* Largest number of endpoints of a list given to AdjustEndpoints.
MaxEndpoints == 2

\* Largest number of targets of an endpoint given to AdjustEndpoints.
MaxTargets == 2

\* Largest number of AdjustEndpoints calls on one list.
MaxAdjustRuns == 2

-----------------------------------------------------------------------------
(* Strings *)

Dot == "."

RECURSIVE IndexOfDot(_, _)
\* strings.Index(s, "."), 1-based from position k; 0 when there is none
IndexOfDot(s, k) ==
    IF k > Len(s) THEN 0
    ELSE IF s[k] = Dot THEN k
    ELSE IndexOfDot(s, k + 1)

RECURSIVE LastIndexOfDot(_, _)
LastIndexOfDot(s, k) ==
    IF k = 0 THEN 0
    ELSE IF s[k] = Dot THEN k
    ELSE LastIndexOfDot(s, k - 1)

\* mutant: the name is split at its last "."
SplitN2_last(s) ==
    LET d == LastIndexOfDot(s, Len(s)) IN
    IF d = 0 THEN <<s>>
    ELSE <<SubSeq(s, 1, d - 1), SubSeq(s, d + 1, Len(s))>>

\* strings.SplitN(s, ".", 2)
SplitN2(s) ==
    LET d == IndexOfDot(s, 1) IN
    IF d = 0 THEN <<s>>
    ELSE <<SubSeq(s, 1, d - 1), SubSeq(s, d + 1, Len(s))>>

\* fmt.Sprintf("%s.%s", a, b)
SprintfDot(a, b) == a \o <<Dot>> \o b

-----------------------------------------------------------------------------
(* Go maps keyed by string *)

EmptyMap == <<>>

Has(m, k) == k \in DOMAIN m

MapPut(m, k, v) == [x \in (DOMAIN m) \cup {k} |-> IF x = k THEN v ELSE m[x]]

MapDelete(m, k) == [x \in (DOMAIN m) \ {k} |-> m[x]]

-----------------------------------------------------------------------------
(* api.HostOverride, api.HostAlias, endpoint.Endpoint *)

\* the zero value of an ID: the empty string
EmptyID == 0

RecordTypeA == "A"
RecordTypeCNAME == "CNAME"
RecordTypeTXT == "TXT"

\* api.HostOverride{}
ZeroHostOverride == [ID |-> EmptyID, Hostname |-> <<>>, Domain |-> <<>>, Server |-> <<>>]

\* mutant: the foreign key is left out
ZeroHostAlias_noHostID(id) ==
    [ID |-> EmptyID, Host |-> <<>>, HostID |-> EmptyID, Hostname |-> <<>>, Domain |-> <<>>]

\* api.HostAlias{HostID: id}
ZeroHostAlias(id) ==
    [ID |-> EmptyID, Host |-> <<>>, HostID |-> id, Hostname |-> <<>>, Domain |-> <<>>]

\* (*HostOverride).DNSName and (*HostAlias).DNSName
DNSName(r) == SprintfDot(r.Hostname, r.Domain)

\* mutant: the endpoint is named by the hostname alone
HostOverrideEndpoint_hostname(r) ==
    [DNSName |-> r.Hostname,
     Targets |-> <<r.Server>>,
     RecordType |-> RecordTypeA]

\* (*HostOverride).Endpoint
HostOverrideEndpoint(r) ==
    [DNSName |-> SprintfDot(r.Hostname, r.Domain),
     Targets |-> <<r.Server>>,
     RecordType |-> RecordTypeA]

\* mutant: the alias's own name is given as its target
HostAliasEndpoint_ownName(r) ==
    [DNSName |-> SprintfDot(r.Hostname, r.Domain),
     Targets |-> <<SprintfDot(r.Hostname, r.Domain)>>,
     RecordType |-> RecordTypeCNAME]

\* (*HostAlias).Endpoint
HostAliasEndpoint(r) ==
    [DNSName |-> SprintfDot(r.Hostname, r.Domain),
     Targets |-> <<r.Host>>,
     RecordType |-> RecordTypeCNAME]

\* Update indexes parts[1] and ep.Targets[0]: it panics (index out of range)
\* when the name has no "." or the endpoint has no target.
UpdatePanics(ep) == Len(SplitN2(ep.DNSName)) < 2 \/ Len(ep.Targets) = 0

\* mutant: the fields are set on a new record, the ID is lost
HostOverrideUpdate_fresh(r, ep) ==
    LET parts == SplitN2(ep.DNSName) IN
    [ZeroHostOverride EXCEPT !.Hostname = parts[1], !.Domain = parts[2],
                             !.Server = ep.Targets[1]]

\* (*HostOverride).Update, when it does not panic
HostOverrideUpdate(r, ep) ==
    LET parts == SplitN2(ep.DNSName) IN
    [r EXCEPT !.Hostname = parts[1], !.Domain = parts[2], !.Server = ep.Targets[1]]

\* (*HostAlias).Update, when it does not panic
HostAliasUpdate(r, ep) ==
    LET parts == SplitN2(ep.DNSName) IN
    [r EXCEPT !.Hostname = parts[1], !.Domain = parts[2], !.Host = ep.Targets[1]]

-----------------------------------------------------------------------------
(* The backend behind api.API *)

\* ListHostAliases(id): the aliases of one host override, each tagged with id
BackendListHostAliases(aliases, id) ==
    SelectSeq(aliases, LAMBDA ha : ha.HostID = id)

\* DeleteHostOverride / DeleteHostAlias: slices.DeleteFunc(list, e == rec)
BackendDelete(list, rec) == SelectSeq(list, LAMBDA e : e # rec)

\* UpdateHostOverride / UpdateHostAlias: replace the record with the same ID
BackendUpdate(list, rec) ==
    [k \in DOMAIN list |-> IF list[k].ID = rec.ID THEN rec ELSE list[k]]

\* CreateHostOverride / CreateHostAlias: assign the ID, append
BackendCreate(list, rec, id) == Append(list, [rec EXCEPT !.ID = id])

-----------------------------------------------------------------------------
(* Remote calls, as logged *)

NoArg == [ID |-> EmptyID]

Call(op, arg, ok, phase, idx) ==
    [op |-> op, arg |-> arg, ok |-> ok, phase |-> phase, idx |-> idx]

MutatingOps == {"CreateHostOverride", "UpdateHostOverride", "DeleteHostOverride",
                "CreateHostAlias", "UpdateHostAlias", "DeleteHostAlias"}

ListOps == {"ListHostOverrides", "ListHostAliases"}

-----------------------------------------------------------------------------
(* Inputs *)

N_ac == <<"a", ".", "c">>
N_bc == <<"b", ".", "c">>
N_abc == <<"a", ".", "b", ".", "c">>
N_c == <<"c">>
IP1 == <<"1">>
IP2 == <<"2">>

\* full names of the endpoints of kind A and of kind CNAME; every name has a
\* ".", one has two, and one is a name of both kinds
AddressNames == {N_ac, N_abc}
AliasNames == {N_abc, N_bc}

Endpoint(name, type, targets) ==
    [DNSName |-> name, Targets |-> targets, RecordType |-> type]

EndpointsA == {Endpoint(n, RecordTypeA, <<IP2, IP1>>) : n \in AddressNames}

EndpointsCNAME ==
    {Endpoint(n, RecordTypeCNAME, <<t>>) : n \in AliasNames, t \in AddressNames}

EndpointTXT == Endpoint(N_ac, RecordTypeTXT, <<IP1>>)

\* endpoints on which Update or Targets[0] panics: no "." in the name, no target
Malformed ==
    {Endpoint(N_c, RecordTypeA, <<IP1>>),
     Endpoint(N_c, RecordTypeCNAME, <<N_ac>>),
     Endpoint(N_bc, RecordTypeCNAME, <<>>)}

\* an A endpoint with exactly one target
EndpointA1 == Endpoint(N_abc, RecordTypeA, <<IP1>>)

\* Create entries
CreateEndpoints ==
    EndpointsA \cup {EndpointA1} \cup EndpointsCNAME \cup {EndpointTXT} \cup Malformed

\* Delete and UpdateOld entries: only DNSName and RecordType are read
OldA == {Endpoint(n, RecordTypeA, <<IP1>>) : n \in AddressNames}
OldCNAME == {Endpoint(n, RecordTypeCNAME, <<N_ac>>) : n \in AliasNames}
OldEndpoints == OldA \cup OldCNAME \cup {EndpointTXT}

\* Update pairs <<old, new>>: of one kind, of two kinds, with a malformed new
UpdatePairs ==
    (OldA \X EndpointsA) \cup (OldCNAME \X EndpointsCNAME)
    \cup {<<EndpointTXT, EndpointTXT>>}
    \cup {<<Endpoint(N_ac, RecordTypeA, <<IP1>>), Endpoint(N_bc, RecordTypeCNAME, <<N_abc>>)>>,
          <<Endpoint(N_bc, RecordTypeCNAME, <<N_ac>>), Endpoint(N_abc, RecordTypeA, <<IP2, IP1>>)>>,
          <<Endpoint(N_bc, RecordTypeCNAME, <<N_ac>>), Endpoint(N_abc, RecordTypeA, <<N_ac>>)>>}
    \cup ({Endpoint(N_ac, RecordTypeA, <<IP1>>), Endpoint(N_bc, RecordTypeCNAME, <<N_ac>>)}
            \X Malformed)

SeqsUpTo(S, n) == UNION {[1..k -> S] : k \in 0..n}

Batch(d, c, u) ==
    [Create |-> c, Delete |-> d,
     UpdateOld |-> [k \in DOMAIN u |-> u[k][1]],
     UpdateNew |-> [k \in DOMAIN u |-> u[k][2]]]

EmptyBatch == Batch(<<>>, <<>>, <<>>)

HO(id, h, d, s) == [ID |-> id, Hostname |-> h, Domain |-> d, Server |-> s]

HA(id, h, d, host, hostID) ==
    [ID |-> id, Host |-> host, HostID |-> hostID, Hostname |-> h, Domain |-> d]

\* backends before the first operation
InitBackends ==
    { [ho |-> <<>>, ha |-> <<>>],
      [ho |-> <<HO(1, <<"a">>, <<"c">>, IP1)>>,
       ha |-> <<HA(2, <<"b">>, <<"c">>, N_ac, 1)>>],
      [ho |-> <<HO(1, <<"a">>, <<"c">>, IP1), HO(2, <<"a">>, <<"b", ".", "c">>, IP1)>>,
       ha |-> <<HA(3, <<"b">>, <<"c">>, N_abc, 2), HA(4, <<"a">>, <<"b", ".", "c">>, N_ac, 1)>>] }

-----------------------------------------------------------------------------
(* plan.Changes.HasChanges *)

\* mutant: the early return is never taken
HasChanges_always(ch) == TRUE

\* plan.Changes.HasChanges of external-dns: there is an entry to create or to
\* delete, or UpdateNew is not equal to UpdateOld
HasChanges(ch) ==
    \/ Len(ch.Create) > 0
    \/ Len(ch.Delete) > 0
    \/ ch.UpdateNew # ch.UpdateOld

-----------------------------------------------------------------------------
(* Position of ApplyChanges: the phases and their loops *)

\* mutant: the Create loop comes before the Delete loop
NextPhase_createFirst(p) ==
    CASE p = "listAliases" -> "create"
      [] p = "create" -> "delete"
      [] p = "delete" -> "update"
      [] p = "update" -> "done"

NextPhase(p) ==
    CASE p = "listAliases" -> "delete"
      [] p = "delete" -> "create"
      [] p = "create" -> "update"
      [] p = "update" -> "done"

PhaseLen(ch, lst, p) ==
    CASE p = "listAliases" -> Len(lst)
      [] p = "delete" -> Len(ch.Delete)
      [] p = "create" -> Len(ch.Create)
      [] p = "update" -> Len(ch.UpdateOld)

RECURSIVE FirstFrom(_, _, _)
\* the first entry at or after the start of phase p
FirstFrom(ch, lst, p) ==
    IF p = "done" THEN [pc |-> "done", i |-> 0]
    ELSE IF PhaseLen(ch, lst, p) > 0 THEN [pc |-> p, i |-> 1]
    ELSE FirstFrom(ch, lst, NextPhase(p))

\* the entry after entry idx of phase p
After(ch, lst, p, idx) ==
    IF idx < PhaseLen(ch, lst, p) THEN [pc |-> p, i |-> idx + 1]
    ELSE FirstFrom(ch, lst, NextPhase(p))

\* the loop goes on; past the last entry ApplyChanges returns nil
Continue(n) ==
    /\ pc' = n.pc
    /\ i' = n.i
    /\ err' = IF n.pc = "done" THEN "nil" ELSE "none"

\* mutant: an error in a loop is logged and the loop goes on
Return_logOnly(e) ==
    IF e = "error" /\ pc \in {"delete", "create", "update"}
    THEN Continue(After(changes, listed, pc, i))
    ELSE /\ pc' = "done"
         /\ i' = 0
         /\ err' = e

\* mutant: an entry whose remote call failed is tried once more
Return_retry(e) ==
    IF e = "error" /\ pc \in {"delete", "create", "update"}
       /\ \A k \in DOMAIN calls : ~(calls[k].phase = pc /\ calls[k].idx = i)
    THEN /\ pc' = pc
         /\ i' = i
         /\ err' = "none"
    ELSE /\ pc' = "done"
         /\ i' = 0
         /\ err' = e

\* return e
Return(e) ==
    /\ pc' = "done"
    /\ i' = 0
    /\ err' = e

Step(p, idx) == [phase |-> p, i |-> idx]

-----------------------------------------------------------------------------
(* unboundClient: the HTTP responses and postJSON *)

\* http.StatusOK
StatusOK == 200

\* no response: u.client.Do returned an error
NoResponse ==
    [arrived |-> FALSE, status |-> 0, parses |-> FALSE, result |-> "", uuid |-> EmptyID]

\* the status codes, the "result" values and the "uuid" values of a response;
\* a body that lacks a field decodes to the zero value of the field
Statuses == {StatusOK, StatusOK + 1}
Results == {"saved", "deleted", "failed", ""}
UUIDs == {EmptyID, 1, 2}

\* the responses a call may get: none, one whose body is not JSON, or one
\* whose body decodes
Responses ==
    {NoResponse}
    \cup {[arrived |-> TRUE, status |-> st, parses |-> FALSE, result |-> "", uuid |-> EmptyID] :
            st \in Statuses}
    \cup {[arrived |-> TRUE, status |-> st, parses |-> TRUE, result |-> r, uuid |-> u] :
            st \in Statuses, r \in Results, u \in UUIDs}

\* mutant: the status code is not looked at
postJSON_anyStatus(resp) ==
    IF ~resp.arrived
    THEN [err |-> "request failed", Result |-> "", ID |-> EmptyID]
    ELSE IF ~resp.parses
    THEN [err |-> "failed to deserialize response", Result |-> "", ID |-> EmptyID]
    ELSE [err |-> "nil", Result |-> resp.result, ID |-> resp.uuid]

\* (*unboundClient).postJSON: the error it returns and what it decoded
\* into out
postJSON(resp) ==
    IF ~resp.arrived
    THEN [err |-> "request failed", Result |-> "", ID |-> EmptyID]
    ELSE IF ~resp.parses
    THEN [err |-> "failed to deserialize response", Result |-> "", ID |-> EmptyID]
    ELSE IF resp.status # StatusOK
    THEN [err |-> "request failed: status", Result |-> resp.result, ID |-> resp.uuid]
    ELSE [err |-> "nil", Result |-> resp.result, ID |-> resp.uuid]

\* no call of the client yet
NoCall == [op |-> "none", rec |-> NoArg]
NoReturn == [rec |-> NoArg, err |-> "none"]

RECURSIVE IndexByDNSName(_, _, _)
\* for _, r := range list { m[r.DNSName()] = r }
IndexByDNSName(list, k, m) ==
    IF k > Len(list) THEN m
    ELSE IndexByDNSName(list, k + 1, MapPut(m, DNSName(list[k]), list[k]))

-----------------------------------------------------------------------------
(* State *)

\* the nil slice: no list of endpoints at all (unlike the empty list)
NoResult == <<Endpoint(<<>>, "nil", <<>>)>>

Init ==
    /\ \E b \in InitBackends :
         /\ hostOverrides = b.ho
         /\ hostAliases = b.ha
         /\ nextID = Len(b.ho) + Len(b.ha) + 1
         /\ initial = <<b.ho, b.ha>>
    /\ pc = "idle"
    /\ i = 0
    /\ last = Step("none", 0)
    /\ changes = EmptyBatch
    /\ listed = <<>>
    /\ aRecordsByDNSName = EmptyMap
    /\ cnameRecordsByDNSName = EmptyMap
    /\ calls = <<>>
    /\ err = "none"
    /\ recResult = NoResult
    /\ recErr = "none"
    /\ recCalls = <<>>
    /\ endpoints = <<>>
    /\ adjInput = <<>>
    /\ adjResult = NoResult
    /\ adjErr = "none"
    /\ adjRuns = 0
    /\ clientCall = NoCall
    /\ httpResponse = NoResponse
    /\ clientReturn = NoReturn

recVars == <<recResult, recErr, recCalls>>
adjVars == <<endpoints, adjInput, adjResult, adjErr, adjRuns>>
clientVars == <<clientCall, httpResponse, clientReturn>>
backendVars == <<hostOverrides, hostAliases, nextID>>
tableVars == <<aRecordsByDNSName, cnameRecordsByDNSName>>

-----------------------------------------------------------------------------
(* ApplyChanges: entry, HasChanges, ListHostOverrides, the address table *)

\* mutant: the host aliases are not listed
ApplyChangesStart_noAliases(ch) ==
    /\ changes' = ch
    /\ last' = Step("list", 0)
    /\ UNCHANGED <<backendVars, initial, cnameRecordsByDNSName, recVars, adjVars, clientVars>>
    /\ IF ~HasChanges(ch)
       THEN /\ Return("nil")
            /\ UNCHANGED <<calls, listed, aRecordsByDNSName>>
       ELSE \E ok \in BOOLEAN :
            /\ calls' = Append(calls, Call("ListHostOverrides", NoArg, ok, "list", 0))
            /\ IF ok
               THEN /\ listed' = hostOverrides
                    /\ aRecordsByDNSName' = IndexByDNSName(hostOverrides, 1, EmptyMap)
                    /\ Continue(FirstFrom(ch, hostOverrides, "delete"))
               ELSE /\ Return("error")
                    /\ UNCHANGED <<listed, aRecordsByDNSName>>

ApplyChangesStart(ch) ==
    /\ changes' = ch
    /\ last' = Step("list", 0)
    /\ UNCHANGED <<backendVars, initial, cnameRecordsByDNSName, recVars, adjVars, clientVars>>
    /\ IF ~HasChanges(ch)
       THEN /\ Return("nil")
            /\ UNCHANGED <<calls, listed, aRecordsByDNSName>>
       ELSE \E ok \in BOOLEAN :
            /\ calls' = Append(calls, Call("ListHostOverrides", NoArg, ok, "list", 0))
            /\ IF ok
               THEN /\ listed' = hostOverrides
                    /\ aRecordsByDNSName' = IndexByDNSName(hostOverrides, 1, EmptyMap)
                    /\ Continue(FirstFrom(ch, hostOverrides, "listAliases"))
               ELSE /\ Return("error")
                    /\ UNCHANGED <<listed, aRecordsByDNSName>>

ApplyChanges ==
    /\ pc = "idle"
    /\ recErr = "none"
    /\ \E d \in SeqsUpTo(OldEndpoints, MaxBatch) :
      \E c \in SeqsUpTo(CreateEndpoints, MaxBatch - Len(d)) :
        \E u \in SeqsUpTo(UpdatePairs, MaxBatch - Len(d) - Len(c)) :
          ApplyChangesStart(Batch(d, c, u))

\* one iteration of the loop that fills the alias table
ListAliasesStep ==
    /\ pc = "listAliases"
    /\ last' = Step("listAliases", i)
    /\ UNCHANGED <<backendVars, initial, changes, listed, aRecordsByDNSName, recVars, adjVars, clientVars>>
    /\ LET ho == listed[i] IN
       \E ok \in BOOLEAN :
         /\ calls' = Append(calls, Call("ListHostAliases", [ID |-> ho.ID], ok, "listAliases", i))
         /\ IF ok
            THEN /\ cnameRecordsByDNSName' =
                      IndexByDNSName(BackendListHostAliases(hostAliases, ho.ID), 1,
                                     cnameRecordsByDNSName)
                 /\ Continue(After(changes, listed, "listAliases", i))
            ELSE /\ Return("error")
                 /\ UNCHANGED cnameRecordsByDNSName

-----------------------------------------------------------------------------
(* ApplyChanges: the Delete loop *)

\* mutant: the key of the deleted host override stays in the table
DeleteA_keepKey(ep) ==
    /\ UNCHANGED <<hostAliases, cnameRecordsByDNSName>>
    /\ IF Has(aRecordsByDNSName, ep.DNSName)
       THEN LET ho == aRecordsByDNSName[ep.DNSName] IN
            \E ok \in BOOLEAN :
              /\ calls' = Append(calls, Call("DeleteHostOverride", ho, ok, "delete", i))
              /\ IF ok
                 THEN /\ hostOverrides' = BackendDelete(hostOverrides, ho)
                      /\ aRecordsByDNSName' = aRecordsByDNSName
                      /\ Continue(After(changes, listed, "delete", i))
                 ELSE /\ Return("error")
                      /\ UNCHANGED <<hostOverrides, aRecordsByDNSName>>
       ELSE /\ Continue(After(changes, listed, "delete", i))
            /\ UNCHANGED <<hostOverrides, aRecordsByDNSName, calls>>

\* mutant: the host override deleted is the first one listed
DeleteA_first(ep) ==
    /\ UNCHANGED <<hostAliases, cnameRecordsByDNSName>>
    /\ IF Has(aRecordsByDNSName, ep.DNSName)
       THEN LET ho == listed[1] IN
            \E ok \in BOOLEAN :
              /\ calls' = Append(calls, Call("DeleteHostOverride", ho, ok, "delete", i))
              /\ IF ok
                 THEN /\ hostOverrides' = BackendDelete(hostOverrides, ho)
                      /\ aRecordsByDNSName' = MapDelete(aRecordsByDNSName, ep.DNSName)
                      /\ Continue(After(changes, listed, "delete", i))
                 ELSE /\ Return("error")
                      /\ UNCHANGED <<hostOverrides, aRecordsByDNSName>>
       ELSE /\ Continue(After(changes, listed, "delete", i))
            /\ UNCHANGED <<hostOverrides, aRecordsByDNSName, calls>>

\* case endpoint.RecordTypeA of the Delete loop
DeleteA(ep) ==
    /\ UNCHANGED <<hostAliases, cnameRecordsByDNSName>>
    /\ IF Has(aRecordsByDNSName, ep.DNSName)
       THEN LET ho == aRecordsByDNSName[ep.DNSName] IN
            \E ok \in BOOLEAN :
              /\ calls' = Append(calls, Call("DeleteHostOverride", ho, ok, "delete", i))
              /\ IF ok
                 THEN /\ hostOverrides' = BackendDelete(hostOverrides, ho)
                      /\ aRecordsByDNSName' = MapDelete(aRecordsByDNSName, ep.DNSName)
                      /\ Continue(After(changes, listed, "delete", i))
                 ELSE /\ Return("error")
                      /\ UNCHANGED <<hostOverrides, aRecordsByDNSName>>
       ELSE /\ Continue(After(changes, listed, "delete", i))
            /\ UNCHANGED <<hostOverrides, aRecordsByDNSName, calls>>

\* case endpoint.RecordTypeCNAME of the Delete loop
DeleteCNAME(ep) ==
    /\ UNCHANGED <<hostOverrides, aRecordsByDNSName>>
    /\ IF Has(cnameRecordsByDNSName, ep.DNSName)
       THEN LET ha == cnameRecordsByDNSName[ep.DNSName] IN
            \E ok \in BOOLEAN :
              /\ calls' = Append(calls, Call("DeleteHostAlias", ha, ok, "delete", i))
              /\ IF ok
                 THEN /\ hostAliases' = BackendDelete(hostAliases, ha)
                      /\ cnameRecordsByDNSName' = MapDelete(cnameRecordsByDNSName, ep.DNSName)
                      /\ Continue(After(changes, listed, "delete", i))
                 ELSE /\ Return("error")
                      /\ UNCHANGED <<hostAliases, cnameRecordsByDNSName>>
       ELSE /\ Continue(After(changes, listed, "delete", i))
            /\ UNCHANGED <<hostAliases, cnameRecordsByDNSName, calls>>

\* mutant: an unsupported record type is an error
Unsupported_fatal(p) ==
    /\ Return("error")
    /\ UNCHANGED <<hostOverrides, hostAliases, tableVars, calls>>

\* default case of a loop: logger.Warn("unsupported record type")
Unsupported(p) ==
    /\ Continue(After(changes, listed, p, i))
    /\ UNCHANGED <<hostOverrides, hostAliases, tableVars, calls>>

DeleteStep ==
    /\ pc = "delete"
    /\ last' = Step("delete", i)
    /\ UNCHANGED <<nextID, initial, changes, listed, recVars, adjVars, clientVars>>
    /\ LET ep == changes.Delete[i] IN
       CASE ep.RecordType = RecordTypeA -> DeleteA(ep)
         [] ep.RecordType = RecordTypeCNAME -> DeleteCNAME(ep)
         [] OTHER -> Unsupported("delete")

-----------------------------------------------------------------------------
(* ApplyChanges: the Create loop *)

\* mutant: the table gets the record as it was sent, without the ID the
\* backend gave it
CreateA_storeSent(ep) ==
    /\ UNCHANGED <<hostAliases, cnameRecordsByDNSName>>
    /\ IF UpdatePanics(ep)
       THEN /\ Return("panic")
            /\ UNCHANGED <<hostOverrides, nextID, aRecordsByDNSName, calls>>
       ELSE LET ho == HostOverrideUpdate(ZeroHostOverride, ep) IN
            \E ok \in BOOLEAN :
              /\ calls' = Append(calls, Call("CreateHostOverride", ho, ok, "create", i))
              /\ IF ok
                 THEN /\ hostOverrides' = BackendCreate(hostOverrides, ho, nextID)
                      /\ nextID' = nextID + 1
                      /\ aRecordsByDNSName' = MapPut(aRecordsByDNSName, DNSName(ho), ho)
                      /\ Continue(After(changes, listed, "create", i))
                 ELSE /\ Return("error")
                      /\ UNCHANGED <<hostOverrides, nextID, aRecordsByDNSName>>

\* case endpoint.RecordTypeA of the Create loop
CreateA(ep) ==
    /\ UNCHANGED <<hostAliases, cnameRecordsByDNSName>>
    /\ IF UpdatePanics(ep)
       THEN /\ Return("panic")
            /\ UNCHANGED <<hostOverrides, nextID, aRecordsByDNSName, calls>>
       ELSE LET ho == HostOverrideUpdate(ZeroHostOverride, ep) IN
            \E ok \in BOOLEAN :
              /\ calls' = Append(calls, Call("CreateHostOverride", ho, ok, "create", i))
              /\ IF ok
                 THEN LET created == [ho EXCEPT !.ID = nextID] IN
                      /\ hostOverrides' = BackendCreate(hostOverrides, ho, nextID)
                      /\ nextID' = nextID + 1
                      /\ aRecordsByDNSName' =
                           MapPut(aRecordsByDNSName, DNSName(created), created)
                      /\ Continue(After(changes, listed, "create", i))
                 ELSE /\ Return("error")
                      /\ UNCHANGED <<hostOverrides, nextID, aRecordsByDNSName>>

\* mutant: a missing target is a warning, the loop goes on
CreateTargetNotFound_warn ==
    /\ Continue(After(changes, listed, "create", i))
    /\ UNCHANGED <<hostAliases, nextID, cnameRecordsByDNSName, calls>>

\* the else branch of the CNAME case: the target host override is not found
CreateTargetNotFound ==
    /\ Return("error")
    /\ UNCHANGED <<hostAliases, nextID, cnameRecordsByDNSName, calls>>

\* case endpoint.RecordTypeCNAME of the Create loop
CreateCNAME(ep) ==
    /\ UNCHANGED <<hostOverrides, aRecordsByDNSName>>
    /\ IF Len(ep.Targets) = 0
       THEN /\ Return("panic")
            /\ UNCHANGED <<hostAliases, nextID, cnameRecordsByDNSName, calls>>
       ELSE IF Has(aRecordsByDNSName, ep.Targets[1])
       THEN LET ho == aRecordsByDNSName[ep.Targets[1]] IN
            IF UpdatePanics(ep)
            THEN /\ Return("panic")
                 /\ UNCHANGED <<hostAliases, nextID, cnameRecordsByDNSName, calls>>
            ELSE LET ha == HostAliasUpdate(ZeroHostAlias(ho.ID), ep) IN
                 \E ok \in BOOLEAN :
                   /\ calls' = Append(calls, Call("CreateHostAlias", ha, ok, "create", i))
                   /\ IF ok
                      THEN LET created == [ha EXCEPT !.ID = nextID] IN
                           /\ hostAliases' = BackendCreate(hostAliases, ha, nextID)
                           /\ nextID' = nextID + 1
                           /\ cnameRecordsByDNSName' =
                                MapPut(cnameRecordsByDNSName, DNSName(created), created)
                           /\ Continue(After(changes, listed, "create", i))
                      ELSE /\ Return("error")
                           /\ UNCHANGED <<hostAliases, nextID, cnameRecordsByDNSName>>
       ELSE CreateTargetNotFound

CreateStep ==
    /\ pc = "create"
    /\ last' = Step("create", i)
    /\ UNCHANGED <<initial, changes, listed, recVars, adjVars, clientVars>>
    /\ LET ep == changes.Create[i] IN
       CASE ep.RecordType = RecordTypeA -> CreateA(ep)
         [] ep.RecordType = RecordTypeCNAME -> CreateCNAME(ep)
         [] OTHER -> Unsupported("create") /\ UNCHANGED nextID

-----------------------------------------------------------------------------
(* ApplyChanges: the Update loop *)

\* mutant: a host override that is not found is an error, as for an alias
UpdateA_missFatal(oldEP, newEP) ==
    /\ UNCHANGED <<hostAliases, cnameRecordsByDNSName>>
    /\ IF Has(aRecordsByDNSName, oldEP.DNSName)
       THEN IF UpdatePanics(newEP)
            THEN /\ Return("panic")
                 /\ UNCHANGED <<hostOverrides, aRecordsByDNSName, calls>>
            ELSE LET ho == HostOverrideUpdate(aRecordsByDNSName[oldEP.DNSName], newEP) IN
                 \E ok \in BOOLEAN :
                   /\ calls' = Append(calls, Call("UpdateHostOverride", ho, ok, "update", i))
                   /\ IF ok
                      THEN /\ hostOverrides' = BackendUpdate(hostOverrides, ho)
                           /\ aRecordsByDNSName' = MapPut(aRecordsByDNSName, DNSName(ho), ho)
                           /\ Continue(After(changes, listed, "update", i))
                      ELSE /\ Return("error")
                           /\ UNCHANGED <<hostOverrides, aRecordsByDNSName>>
       ELSE /\ Return("error")
            /\ UNCHANGED <<hostOverrides, aRecordsByDNSName, calls>>

\* case endpoint.RecordTypeA of the Update loop
UpdateA(oldEP, newEP) ==
    /\ UNCHANGED <<hostAliases, cnameRecordsByDNSName>>
    /\ IF Has(aRecordsByDNSName, oldEP.DNSName)
       THEN IF UpdatePanics(newEP)
            THEN /\ Return("panic")
                 /\ UNCHANGED <<hostOverrides, aRecordsByDNSName, calls>>
            ELSE LET ho == HostOverrideUpdate(aRecordsByDNSName[oldEP.DNSName], newEP) IN
                 \E ok \in BOOLEAN :
                   /\ calls' = Append(calls, Call("UpdateHostOverride", ho, ok, "update", i))
                   /\ IF ok
                      THEN /\ hostOverrides' = BackendUpdate(hostOverrides, ho)
                           /\ aRecordsByDNSName' = MapPut(aRecordsByDNSName, DNSName(ho), ho)
                           /\ Continue(After(changes, listed, "update", i))
                      ELSE /\ Return("error")
                           /\ UNCHANGED <<hostOverrides, aRecordsByDNSName>>
       ELSE /\ Continue(After(changes, listed, "update", i))
            /\ UNCHANGED <<hostOverrides, aRecordsByDNSName, calls>>

\* mutant: the foreign key is not set again
UpdatedAlias_keepHostID(haOld, newEP, ho) == HostAliasUpdate(haOld, newEP)

\* ha := haOld; ha.Update(newEP); ha.HostID = ho.ID
UpdatedAlias(haOld, newEP, ho) ==
    [HostAliasUpdate(haOld, newEP) EXCEPT !.HostID = ho.ID]

\* mutant: an alias that is not found is skipped, as for a host override
UpdateCNAME_missSkips(oldEP, newEP) ==
    /\ UNCHANGED <<hostOverrides, aRecordsByDNSName>>
    /\ IF Has(cnameRecordsByDNSName, oldEP.DNSName)
       THEN LET haOld == cnameRecordsByDNSName[oldEP.DNSName] IN
            IF Len(newEP.Targets) = 0
            THEN /\ Return("panic")
                 /\ UNCHANGED <<hostAliases, cnameRecordsByDNSName, calls>>
            ELSE IF Has(aRecordsByDNSName, newEP.Targets[1])
            THEN LET ho == aRecordsByDNSName[newEP.Targets[1]] IN
                 IF UpdatePanics(newEP)
                 THEN /\ Return("panic")
                      /\ UNCHANGED <<hostAliases, cnameRecordsByDNSName, calls>>
                 ELSE LET ha == UpdatedAlias(haOld, newEP, ho) IN
                      \E ok \in BOOLEAN :
                        /\ calls' = Append(calls, Call("UpdateHostAlias", ha, ok, "update", i))
                        /\ IF ok
                           THEN /\ hostAliases' = BackendUpdate(hostAliases, ha)
                                /\ cnameRecordsByDNSName' =
                                     MapPut(cnameRecordsByDNSName, DNSName(ha), ha)
                                /\ Continue(After(changes, listed, "update", i))
                           ELSE /\ Return("error")
                                /\ UNCHANGED <<hostAliases, cnameRecordsByDNSName>>
            ELSE /\ Return("error")
                 /\ UNCHANGED <<hostAliases, cnameRecordsByDNSName, calls>>
       ELSE /\ Continue(After(changes, listed, "update", i))
            /\ UNCHANGED <<hostAliases, cnameRecordsByDNSName, calls>>

\* case endpoint.RecordTypeCNAME of the Update loop
UpdateCNAME(oldEP, newEP) ==
    /\ UNCHANGED <<hostOverrides, aRecordsByDNSName>>
    /\ IF Has(cnameRecordsByDNSName, oldEP.DNSName)
       THEN LET haOld == cnameRecordsByDNSName[oldEP.DNSName] IN
            IF Len(newEP.Targets) = 0
            THEN /\ Return("panic")
                 /\ UNCHANGED <<hostAliases, cnameRecordsByDNSName, calls>>
            ELSE IF Has(aRecordsByDNSName, newEP.Targets[1])
            THEN LET ho == aRecordsByDNSName[newEP.Targets[1]] IN
                 IF UpdatePanics(newEP)
                 THEN /\ Return("panic")
                      /\ UNCHANGED <<hostAliases, cnameRecordsByDNSName, calls>>
                 ELSE LET ha == UpdatedAlias(haOld, newEP, ho) IN
                      \E ok \in BOOLEAN :
                        /\ calls' = Append(calls, Call("UpdateHostAlias", ha, ok, "update", i))
                        /\ IF ok
                           THEN /\ hostAliases' = BackendUpdate(hostAliases, ha)
                                /\ cnameRecordsByDNSName' =
                                     MapPut(cnameRecordsByDNSName, DNSName(ha), ha)
                                /\ Continue(After(changes, listed, "update", i))
                           ELSE /\ Return("error")
                                /\ UNCHANGED <<hostAliases, cnameRecordsByDNSName>>
            ELSE /\ Return("error")
                 /\ UNCHANGED <<hostAliases, cnameRecordsByDNSName, calls>>
       ELSE /\ Return("error")
            /\ UNCHANGED <<hostAliases, cnameRecordsByDNSName, calls>>

\* mutant: the case is chosen by the kind of the new endpoint
UpdateStep_byNewKind ==
    /\ pc = "update"
    /\ last' = Step("update", i)
    /\ UNCHANGED <<nextID, initial, changes, listed, recVars, adjVars, clientVars>>
    /\ LET oldEP == changes.UpdateOld[i]
           newEP == changes.UpdateNew[i]
       IN
       CASE newEP.RecordType = RecordTypeA -> UpdateA(oldEP, newEP)
         [] newEP.RecordType = RecordTypeCNAME -> UpdateCNAME(oldEP, newEP)
         [] OTHER -> Unsupported("update")

UpdateStep ==
    /\ pc = "update"
    /\ last' = Step("update", i)
    /\ UNCHANGED <<nextID, initial, changes, listed, recVars, adjVars, clientVars>>
    /\ LET oldEP == changes.UpdateOld[i]
           newEP == changes.UpdateNew[i]
       IN
       CASE oldEP.RecordType = RecordTypeA -> UpdateA(oldEP, newEP)
         [] oldEP.RecordType = RecordTypeCNAME -> UpdateCNAME(oldEP, newEP)
         [] OTHER -> Unsupported("update")

-----------------------------------------------------------------------------
(* Records *)

RECURSIVE EndpointsOf(_, _)
\* for _, cr := range cnameRes { result = append(result, cr.Endpoint()) }
EndpointsOf(cnameRes, k) ==
    IF k > Len(cnameRes) THEN <<>>
    ELSE <<HostAliasEndpoint(cnameRes[k])>> \o EndpointsOf(cnameRes, k + 1)

RECURSIVE RecordsLoop_partial(_, _, _, _, _)
\* mutant: a failed ListHostAliases returns what was collected so far
RecordsLoop_partial(res, k, failAt, result, log) ==
    IF k > Len(res)
    THEN [result |-> result, err |-> "nil", calls |-> log]
    ELSE LET r == res[k]
             ok == failAt # k + 1
             log2 == Append(log, Call("ListHostAliases", [ID |-> r.ID], ok, "records", k))
         IN
         IF ok
         THEN RecordsLoop_partial(res, k + 1, failAt,
                          Append(result, HostOverrideEndpoint(r))
                            \o EndpointsOf(BackendListHostAliases(hostAliases, r.ID), 1),
                          log2)
         ELSE [result |-> result, err |-> "error", calls |-> log2]

RECURSIVE RecordsLoop(_, _, _, _, _)
\* the loop over res from its k-th element; failAt is the call that fails
RecordsLoop(res, k, failAt, result, log) ==
    IF k > Len(res)
    THEN [result |-> result, err |-> "nil", calls |-> log]
    ELSE LET r == res[k]
             ok == failAt # k + 1
             log2 == Append(log, Call("ListHostAliases", [ID |-> r.ID], ok, "records", k))
         IN
         IF ok
         THEN RecordsLoop(res, k + 1, failAt,
                          Append(result, HostOverrideEndpoint(r))
                            \o EndpointsOf(BackendListHostAliases(hostAliases, r.ID), 1),
                          log2)
         ELSE [result |-> NoResult, err |-> "error", calls |-> log2]

\* mutant: Records() saves the host overrides it has listed
RecordsRun_saving(failAt) ==
    LET ok == failAt # 1
        log == <<Call("ListHostOverrides", NoArg, ok, "records", 0)>>
    IN
    IF ok
    THEN LET r == RecordsLoop(hostOverrides, 1, failAt, <<>>, log) IN
         [r EXCEPT !.calls = IF hostOverrides = <<>> THEN @
                             ELSE Append(@, Call("UpdateHostOverride", hostOverrides[1],
                                                 TRUE, "records", 0))]
    ELSE [result |-> NoResult, err |-> "error", calls |-> log]

\* Records(); failAt = 0: no call fails, 1: ListHostOverrides fails,
\* k + 1: the ListHostAliases call for the k-th host override fails
RecordsRun(failAt) ==
    LET ok == failAt # 1
        log == <<Call("ListHostOverrides", NoArg, ok, "records", 0)>>
    IN
    IF ok
    THEN RecordsLoop(hostOverrides, 1, failAt, <<>>, log)
    ELSE [result |-> NoResult, err |-> "error", calls |-> log]

Records ==
    /\ pc \in {"idle", "done"}
    /\ recErr = "none"
    /\ \E failAt \in 0..(Len(hostOverrides) + 1) :
         LET r == RecordsRun(failAt) IN
         /\ recResult' = r.result
         /\ recErr' = r.err
         /\ recCalls' = r.calls
    /\ UNCHANGED <<backendVars, initial, pc, i, last, changes, listed, tableVars, calls, err,
                   adjVars, clientVars>>

-----------------------------------------------------------------------------
(* AdjustEndpoints *)

\* endpoint.NewTargets(t)
NewTargets(t) == <<t>>

\* e.Targets[0] panics (index out of range) when e has no target
AdjustPanics(e) == Len(e.Targets) = 0

\* mutant: the last target is kept
AdjustedTargets_last(e) == NewTargets(e.Targets[Len(e.Targets)])

\* mutant: the first target is dropped, the others are kept
AdjustedTargets_rest(e) == Tail(e.Targets)

\* e.Targets = endpoint.NewTargets(e.Targets[0])
AdjustedTargets(e) == NewTargets(e.Targets[1])

\* if e.RecordType == endpoint.RecordTypeA
NeedsAdjust(e) == e.RecordType = RecordTypeA

RECURSIVE AdjustLoop(_, _)
\* the loop over eps from its k-th element; the elements are changed in
\* place, so those before a panic stay changed
AdjustLoop(eps, k) ==
    IF k > Len(eps) THEN [endpoints |-> eps, err |-> "nil"]
    ELSE IF NeedsAdjust(eps[k])
    THEN IF AdjustPanics(eps[k])
         THEN [endpoints |-> eps, err |-> "panic"]
         ELSE AdjustLoop([eps EXCEPT ![k].Targets = AdjustedTargets(eps[k])], k + 1)
    ELSE AdjustLoop(eps, k + 1)

\* AdjustEndpoints(endpoints); it is given its own result again
AdjustEndpoints ==
    /\ adjErr # "panic"
    /\ adjRuns < MaxAdjustRuns
    /\ LET r == AdjustLoop(endpoints, 1) IN
       /\ endpoints' = r.endpoints
       /\ adjErr' = r.err
       /\ adjResult' = IF r.err = "nil" THEN r.endpoints ELSE NoResult
    /\ adjRuns' = adjRuns + 1
    /\ UNCHANGED <<adjInput, backendVars, initial, pc, i, last, changes, listed,
                   tableVars, calls, err, recVars, clientVars>>

\* target lists and endpoints given to AdjustEndpoints: every kind with no
\* target, one target and several targets
TargetLists == SeqsUpTo({IP1, IP2}, MaxTargets)

AdjustInputs ==
    {Endpoint(n, t, ts) :
        n \in {N_ac, N_bc},
        t \in {RecordTypeA, RecordTypeCNAME, RecordTypeTXT},
        ts \in TargetLists}

InitAdjust ==
    /\ hostOverrides = <<>>
    /\ hostAliases = <<>>
    /\ nextID = 1
    /\ initial = <<<<>>, <<>>>>
    /\ pc = "idle"
    /\ i = 0
    /\ last = Step("none", 0)
    /\ changes = EmptyBatch
    /\ listed = <<>>
    /\ aRecordsByDNSName = EmptyMap
    /\ cnameRecordsByDNSName = EmptyMap
    /\ calls = <<>>
    /\ err = "none"
    /\ recResult = NoResult
    /\ recErr = "none"
    /\ recCalls = <<>>
    /\ endpoints \in SeqsUpTo(AdjustInputs, MaxEndpoints)
    /\ adjInput = endpoints
    /\ adjResult = NoResult
    /\ adjErr = "none"
    /\ adjRuns = 0
    /\ clientCall = NoCall
    /\ httpResponse = NoResponse
    /\ clientReturn = NoReturn

NextAdjust == AdjustEndpoints

SpecAdjust == InitAdjust /\ [][NextAdjust]_vars

-----------------------------------------------------------------------------
(* unboundClient: the mutating calls *)

\* the records given to the client, without and with an ID
ClientHostOverrides ==
    {HO(EmptyID, <<"a">>, <<"c">>, IP1), HO(1, <<"a">>, <<"c">>, IP1)}

ClientHostAliases ==
    {HA(EmptyID, <<"b">>, <<"c">>, N_ac, 1), HA(2, <<"b">>, <<"c">>, N_ac, 1)}

\* what the client does but for the method: it leaves the provider alone
ClientCall(op, rec, resp) ==
    /\ clientCall' = [op |-> op, rec |-> rec]
    /\ httpResponse' = resp
    /\ UNCHANGED <<backendVars, initial, pc, i, last, changes, listed, tableVars, calls,
                   err, recVars, adjVars>>

CreateHostOverride ==
    \E rec \in ClientHostOverrides, resp \in Responses :
      /\ ClientCall("CreateHostOverride", rec, resp)
      /\ LET res == postJSON(resp) IN
         clientReturn' =
            IF res.err # "nil" THEN [rec |-> rec, err |-> res.err]
            ELSE IF res.Result # "saved"
            THEN [rec |-> rec, err |-> "addHostOverride failed"]
            ELSE [rec |-> [rec EXCEPT !.ID = res.ID], err |-> "nil"]

DeleteHostOverride ==
    \E rec \in ClientHostOverrides, resp \in Responses :
      /\ ClientCall("DeleteHostOverride", rec, resp)
      /\ LET res == postJSON(resp) IN
         clientReturn' =
            IF res.err # "nil" THEN [rec |-> NoArg, err |-> res.err]
            ELSE IF res.Result # "deleted"
            THEN [rec |-> NoArg, err |-> "delHostOverride failed"]
            ELSE [rec |-> NoArg, err |-> "nil"]

UpdateHostOverride ==
    \E rec \in ClientHostOverrides, resp \in Responses :
      /\ ClientCall("UpdateHostOverride", rec, resp)
      /\ LET res == postJSON(resp) IN
         clientReturn' =
            IF res.err # "nil" THEN [rec |-> NoArg, err |-> res.err]
            ELSE IF res.Result # "saved"
            THEN [rec |-> NoArg, err |-> "setHostOverride failed"]
            ELSE [rec |-> NoArg, err |-> "nil"]

CreateHostAlias ==
    \E rec \in ClientHostAliases, resp \in Responses :
      /\ ClientCall("CreateHostAlias", rec, resp)
      /\ LET res == postJSON(resp) IN
         clientReturn' =
            IF res.err # "nil" THEN [rec |-> rec, err |-> res.err]
            ELSE IF res.Result # "saved"
            THEN [rec |-> rec, err |-> "addHostAlias failed"]
            ELSE [rec |-> [rec EXCEPT !.ID = res.ID], err |-> "nil"]

UpdateHostAlias ==
    \E rec \in ClientHostAliases, resp \in Responses :
      /\ ClientCall("UpdateHostAlias", rec, resp)
      /\ LET res == postJSON(resp) IN
         clientReturn' =
            IF res.err # "nil" THEN [rec |-> NoArg, err |-> res.err]
            ELSE IF res.Result # "saved"
            THEN [rec |-> NoArg, err |-> "setHostAlias failed"]
            ELSE [rec |-> NoArg, err |-> "nil"]

DeleteHostAlias ==
    \E rec \in ClientHostAliases, resp \in Responses :
      /\ ClientCall("DeleteHostAlias", rec, resp)
      /\ LET res == postJSON(resp) IN
         clientReturn' =
            IF res.err # "nil" THEN [rec |-> NoArg, err |-> res.err]
            ELSE IF res.Result # "deleted"
            THEN [rec |-> NoArg, err |-> "delHostAlias failed"]
            ELSE [rec |-> NoArg, err |-> "nil"]

InitClient ==
    /\ hostOverrides = <<>>
    /\ hostAliases = <<>>
    /\ nextID = 1
    /\ initial = <<<<>>, <<>>>>
    /\ pc = "idle"
    /\ i = 0
    /\ last = Step("none", 0)
    /\ changes = EmptyBatch
    /\ listed = <<>>
    /\ aRecordsByDNSName = EmptyMap
    /\ cnameRecordsByDNSName = EmptyMap
    /\ calls = <<>>
    /\ err = "none"
    /\ recResult = NoResult
    /\ recErr = "none"
    /\ recCalls = <<>>
    /\ endpoints = <<>>
    /\ adjInput = <<>>
    /\ adjResult = NoResult
    /\ adjErr = "none"
    /\ adjRuns = 0
    /\ clientCall = NoCall
    /\ httpResponse = NoResponse
    /\ clientReturn = NoReturn

NextClient ==
    \/ CreateHostOverride
    \/ DeleteHostOverride
    \/ UpdateHostOverride
    \/ CreateHostAlias
    \/ UpdateHostAlias
    \/ DeleteHostAlias

SpecClient == InitClient /\ [][NextClient]_vars

-----------------------------------------------------------------------------

Next ==
    \/ ApplyChanges
    \/ ListAliasesStep
    \/ DeleteStep
    \/ CreateStep
    \/ UpdateStep
    \/ Records

Spec == Init /\ [][Next]_vars

\* a call of ApplyChanges that has started runs on: the goroutine executes
\* one statement after the other, and every remote call returns
Running ==
    \/ ListAliasesStep
    \/ DeleteStep
    \/ CreateStep
    \/ UpdateStep

SpecFair == Spec /\ WF_vars(Running)

TypeOK ==
    /\ pc \in {"idle", "listAliases", "delete", "create", "update", "done"}
    /\ err \in {"none", "nil", "error", "panic"}
    /\ (pc = "done") = (err # "none")

-----------------------------------------------------------------------------
(* Vocabulary of the properties *)

\* the calls a step issues
NewCalls == SubSeq(calls', Len(calls) + 1, Len(calls'))

\* the calls issued for entry idx of phase p
CallsFor(p, idx) == SelectSeq(calls, LAMBDA c : c.phase = p /\ c.idx = idx)

Count(seq, x) == Cardinality({k \in DOMAIN seq : seq[k] = x})

FullName(r) == r.Hostname \o <<".">> \o r.Domain

Chars(str) == {str[k] : k \in DOMAIN str}

\* r's hostname and domain are name's text before and after its first "."
SplitAtFirstDot(r, name) ==
    /\ FullName(r) = name
    /\ "." \notin Chars(r.Hostname)

Elems(seq) == {seq[k] : k \in DOMAIN seq}

\* list without its records equal to r
Without(list, r) == SelectSeq(list, LAMBDA e : e # r)

\* list with the record of r's ID replaced by r, in place
Replaced(list, r) == [k \in DOMAIN list |-> IF list[k].ID = r.ID THEN r ELSE list[k]]

\* the IDs the backend has given out
UsedIDs ==
    {hostOverrides[k].ID : k \in DOMAIN hostOverrides}
    \cup {hostAliases[k].ID : k \in DOMAIN hostAliases}

\* the full names of the records of a lookup table
FullNames(table) == {FullName(table[k]) : k \in DOMAIN table}

-----------------------------------------------------------------------------
(* C1 *)

AllListsEmpty ==
    /\ changes.Create = <<>>
    /\ changes.Delete = <<>>
    /\ changes.UpdateOld = <<>>
    /\ changes.UpdateNew = <<>>

\* C1: ApplyChanges with a batch whose four lists are all empty returns
\* success, has issued no remote call, and has left the backend as it was.
C1_EmptyBatchNoCalls ==
    (pc = "done" /\ AllListsEmpty)
        => (err = "nil" /\ calls = <<>> /\ backend = initial)

C1_Witness ==
    /\ pc = "done"
    /\ AllListsEmpty
    /\ err = "nil"
    /\ hostOverrides # <<>>

-----------------------------------------------------------------------------
(* C2 *)

\* the pairs of a host override and a host alias listed under it
ListedPairs ==
    {<<k, j>> \in (DOMAIN hostOverrides) \X (DOMAIN hostAliases) :
        hostAliases[j].HostID = hostOverrides[k].ID}

\* how often Records() has to return endpoint e
Expected(e) ==
    Cardinality({k \in DOMAIN hostOverrides :
        e = [DNSName |-> FullName(hostOverrides[k]),
             Targets |-> <<hostOverrides[k].Server>>,
             RecordType |-> "A"]})
    + Cardinality({q \in ListedPairs :
        e = [DNSName |-> FullName(hostAliases[q[2]]),
             Targets |-> <<hostAliases[q[2]].Host>>,
             RecordType |-> "CNAME"]})

\* C2: when all fetches succeed, Records() returns one A endpoint per host
\* override (name hostname.domain, target the server), one CNAME endpoint per
\* host alias listed under a host override (name hostname.domain, target the
\* alias's host) and nothing else; for an empty backend the result is empty.
C2_RecordsFlattens ==
    (recErr = "nil") =>
        /\ Len(recResult) = Len(hostOverrides) + Cardinality(ListedPairs)
        /\ \A k \in DOMAIN recResult :
             Count(recResult, recResult[k]) = Expected(recResult[k])
        /\ (hostOverrides = <<>> /\ hostAliases = <<>>) => recResult = <<>>

C2_Witness ==
    /\ recErr = "nil"
    /\ Len(hostOverrides) >= 2
    /\ Cardinality(ListedPairs) >= 2
    /\ Len(recResult) >= 4

-----------------------------------------------------------------------------
(* C3 *)

\* the Create loop is at a CNAME entry whose first target is not the full
\* name of a host override of the address table
AtCreateCNAMEMiss ==
    /\ pc = "create"
    /\ changes.Create[i].RecordType = "CNAME"
    /\ Len(changes.Create[i].Targets) > 0
    /\ changes.Create[i].Targets[1] \notin FullNames(aRecordsByDNSName)

\* C3: a Create entry of kind CNAME whose first target is not the full name
\* of a host override of the address table fails the whole operation, and no
\* CreateHostAlias call is issued for it.
C3_DanglingAliasRejected ==
    [][AtCreateCNAMEMiss =>
          /\ pc' = "done"
          /\ err' = "error"
          /\ calls' = calls
          /\ backend' = backend]_vars

C3_Witness ==
    /\ pc = "done"
    /\ err = "error"
    /\ last.phase = "create"
    /\ changes.Create[last.i].RecordType = "CNAME"
    /\ Len(changes.Create[last.i].Targets) > 0
    /\ changes.Create[last.i].Targets[1] \notin FullNames(aRecordsByDNSName)
    /\ CallsFor("create", last.i) = <<>>
    /\ hostOverrides # <<>>

-----------------------------------------------------------------------------
(* C4 *)

\* the Create loop is at a CNAME entry (with a "." in its name) whose first
\* target is the full name of a host override of the address table
AtCreateCNAMEHit ==
    /\ pc = "create"
    /\ changes.Create[i].RecordType = "CNAME"
    /\ "." \in Chars(changes.Create[i].DNSName)
    /\ Len(changes.Create[i].Targets) > 0
    /\ changes.Create[i].Targets[1] \in FullNames(aRecordsByDNSName)

\* C4: a Create entry of kind CNAME whose first target is the full name of a
\* host override of the address table issues exactly one CreateHostAlias call;
\* its record has hostname and domain split from the entry's name at the first
\* ".", host = the entry's first target, and HostID = the ID of that host
\* override; when the call succeeds the record, with the ID the backend gave
\* it, is in the alias table under its full name.
C4_CreateAlias ==
    [][AtCreateCNAMEHit =>
         LET ep == changes.Create[i] IN
         /\ Len(NewCalls) = 1
         /\ NewCalls[1].op = "CreateHostAlias"
         /\ SplitAtFirstDot(NewCalls[1].arg, ep.DNSName)
         /\ NewCalls[1].arg.Host = ep.Targets[1]
         /\ \E k \in DOMAIN aRecordsByDNSName :
              /\ FullName(aRecordsByDNSName[k]) = ep.Targets[1]
              /\ NewCalls[1].arg.HostID = aRecordsByDNSName[k].ID
              /\ NewCalls[1].arg.HostID # EmptyID
         /\ NewCalls[1].ok =>
              /\ ep.DNSName \in DOMAIN cnameRecordsByDNSName'
              /\ LET ha == cnameRecordsByDNSName'[ep.DNSName] IN
                 /\ ha.ID # EmptyID
                 /\ ha.ID \notin UsedIDs
                 /\ ha = [NewCalls[1].arg EXCEPT !.ID = ha.ID]
                 /\ hostAliases' = Append(hostAliases, ha)]_vars

C4_Witness ==
    /\ last.phase = "create"
    /\ pc # "done"
    /\ changes.Create[last.i].RecordType = "CNAME"
    /\ changes.Create[last.i].DNSName = N_abc
    /\ Len(CallsFor("create", last.i)) = 1
    /\ CallsFor("create", last.i)[1].ok
    /\ N_abc \in DOMAIN cnameRecordsByDNSName
    /\ cnameRecordsByDNSName[N_abc].Hostname = <<"a">>
    /\ cnameRecordsByDNSName[N_abc].ID = nextID - 1
    /\ \E k \in DOMAIN hostAliases : hostAliases[k] = cnameRecordsByDNSName[N_abc]

-----------------------------------------------------------------------------
(* C5 *)

\* the Create loop is at an A entry with a "." in its name and a first target
AtCreateA ==
    /\ pc = "create"
    /\ changes.Create[i].RecordType = "A"
    /\ "." \in Chars(changes.Create[i].DNSName)
    /\ Len(changes.Create[i].Targets) > 0

\* C5: a Create entry of kind A whose name has a "." issues exactly one
\* CreateHostOverride call with hostname = the text before the first ".",
\* domain = the text after it, server = the entry's first target; the created
\* record has a non-empty ID given by the backend, its full name is the
\* entry's name, and it is in the address table under that name.
C5_CreateAddress ==
    [][AtCreateA =>
         LET ep == changes.Create[i] IN
         /\ Len(NewCalls) = 1
         /\ NewCalls[1].op = "CreateHostOverride"
         /\ SplitAtFirstDot(NewCalls[1].arg, ep.DNSName)
         /\ NewCalls[1].arg.Server = ep.Targets[1]
         /\ NewCalls[1].ok =>
              /\ ep.DNSName \in DOMAIN aRecordsByDNSName'
              /\ LET ho == aRecordsByDNSName'[ep.DNSName] IN
                 /\ ho.ID # EmptyID
                 /\ ho.ID \notin UsedIDs
                 /\ FullName(ho) = ep.DNSName
                 /\ ho = [NewCalls[1].arg EXCEPT !.ID = ho.ID]
                 /\ hostOverrides' = Append(hostOverrides, ho)]_vars

C5_Witness ==
    /\ last.phase = "create"
    /\ pc # "done"
    /\ changes.Create[last.i] = Endpoint(N_abc, "A", <<IP2, IP1>>)
    /\ Len(CallsFor("create", last.i)) = 1
    /\ CallsFor("create", last.i)[1].ok
    /\ N_abc \in DOMAIN aRecordsByDNSName
    /\ aRecordsByDNSName[N_abc] =
         [ID |-> nextID - 1, Hostname |-> <<"a">>, Domain |-> <<"b", ".", "c">>, Server |-> IP2]
    /\ hostOverrides[Len(hostOverrides)] = aRecordsByDNSName[N_abc]

-----------------------------------------------------------------------------
(* C6 *)

\* the Update loop is at a pair whose old endpoint is of kind A and names a
\* host override of the address table (the new one has a "." and a target)
AtUpdateAHit ==
    /\ pc = "update"
    /\ changes.UpdateOld[i].RecordType = "A"
    /\ changes.UpdateOld[i].DNSName \in FullNames(aRecordsByDNSName)
    /\ "." \in Chars(changes.UpdateNew[i].DNSName)
    /\ Len(changes.UpdateNew[i].Targets) > 0

\* C6: an Update pair whose old endpoint is of kind A and names a host
\* override of the address table issues exactly one UpdateHostOverride call,
\* with the ID of the record found and hostname, domain and server of the new
\* endpoint; no create or delete call is issued, the number of host overrides
\* of the backend does not change, and the record is replaced in place.
C6_UpdateAddressInPlace ==
    [][AtUpdateAHit =>
         LET oldEP == changes.UpdateOld[i]
             newEP == changes.UpdateNew[i]
         IN
         /\ Len(NewCalls) = 1
         /\ NewCalls[1].op = "UpdateHostOverride"
         /\ \E k \in DOMAIN aRecordsByDNSName :
              /\ FullName(aRecordsByDNSName[k]) = oldEP.DNSName
              /\ NewCalls[1].arg.ID = aRecordsByDNSName[k].ID
         /\ SplitAtFirstDot(NewCalls[1].arg, newEP.DNSName)
         /\ NewCalls[1].arg.Server = newEP.Targets[1]
         /\ Len(hostOverrides') = Len(hostOverrides)
         /\ hostAliases' = hostAliases
         /\ hostOverrides' = IF NewCalls[1].ok
                             THEN Replaced(hostOverrides, NewCalls[1].arg)
                             ELSE hostOverrides]_vars

C6_Witness ==
    /\ last.phase = "update"
    /\ changes.UpdateOld[last.i] = Endpoint(N_ac, "A", <<IP1>>)
    /\ changes.UpdateNew[last.i] = Endpoint(N_ac, "A", <<IP2, IP1>>)
    /\ Len(CallsFor("update", last.i)) = 1
    /\ CallsFor("update", last.i)[1].ok
    /\ CallsFor("update", last.i)[1].op = "UpdateHostOverride"
    /\ initial[1][1] = [ID |-> 1, Hostname |-> <<"a">>, Domain |-> <<"c">>, Server |-> IP1]
    /\ hostOverrides[1] = [ID |-> 1, Hostname |-> <<"a">>, Domain |-> <<"c">>, Server |-> IP2]
    /\ Len(hostOverrides) = Len(initial[1])

-----------------------------------------------------------------------------
(* C7 *)

\* the Update loop is at a pair whose old endpoint is of kind CNAME and names
\* a host alias of the alias table, and whose new endpoint (with a "." in its
\* name) has as first target the full name of a host override of the address
\* table
AtUpdateCNAMEHit ==
    /\ pc = "update"
    /\ changes.UpdateOld[i].RecordType = "CNAME"
    /\ changes.UpdateOld[i].DNSName \in FullNames(cnameRecordsByDNSName)
    /\ "." \in Chars(changes.UpdateNew[i].DNSName)
    /\ Len(changes.UpdateNew[i].Targets) > 0
    /\ changes.UpdateNew[i].Targets[1] \in FullNames(aRecordsByDNSName)

\* C7: such a pair issues exactly one UpdateHostAlias call that keeps the ID
\* of the alias found, takes hostname, domain and host from the new endpoint,
\* and has as HostID the ID of the host override found under the new
\* endpoint's first target.
C7_UpdateAlias ==
    [][AtUpdateCNAMEHit =>
         LET oldEP == changes.UpdateOld[i]
             newEP == changes.UpdateNew[i]
         IN
         /\ Len(NewCalls) = 1
         /\ NewCalls[1].op = "UpdateHostAlias"
         /\ \E k \in DOMAIN cnameRecordsByDNSName :
              /\ FullName(cnameRecordsByDNSName[k]) = oldEP.DNSName
              /\ NewCalls[1].arg.ID = cnameRecordsByDNSName[k].ID
         /\ SplitAtFirstDot(NewCalls[1].arg, newEP.DNSName)
         /\ NewCalls[1].arg.Host = newEP.Targets[1]
         /\ \E k \in DOMAIN aRecordsByDNSName :
              /\ FullName(aRecordsByDNSName[k]) = newEP.Targets[1]
              /\ NewCalls[1].arg.HostID = aRecordsByDNSName[k].ID
         /\ hostOverrides' = hostOverrides
         /\ hostAliases' = IF NewCalls[1].ok
                           THEN Replaced(hostAliases, NewCalls[1].arg)
                           ELSE hostAliases]_vars

\* the alias b.c -> a.c (ID 2, HostID 1) is renamed to a.b.c, target kept
C7_Witness ==
    /\ last.phase = "update"
    /\ changes.UpdateOld[last.i] = Endpoint(N_bc, "CNAME", <<N_ac>>)
    /\ changes.UpdateNew[last.i] = Endpoint(N_abc, "CNAME", <<N_ac>>)
    /\ Len(CallsFor("update", last.i)) = 1
    /\ CallsFor("update", last.i)[1].ok
    /\ initial[2] = <<[ID |-> 2, Host |-> N_ac, HostID |-> 1,
                       Hostname |-> <<"b">>, Domain |-> <<"c">>]>>
    /\ hostAliases = <<[ID |-> 2, Host |-> N_ac, HostID |-> 1,
                        Hostname |-> <<"a">>, Domain |-> <<"b", ".", "c">>]>>

-----------------------------------------------------------------------------
(* C8 *)

AtDeleteAHit ==
    /\ pc = "delete"
    /\ changes.Delete[i].RecordType = "A"
    /\ changes.Delete[i].DNSName \in FullNames(aRecordsByDNSName)

AtDeleteCNAMEHit ==
    /\ pc = "delete"
    /\ changes.Delete[i].RecordType = "CNAME"
    /\ changes.Delete[i].DNSName \in FullNames(cnameRecordsByDNSName)

\* C8: a Delete entry of kind A naming a host override of the address table
\* issues one DeleteHostOverride call for that record, which removes exactly
\* that record from the backend and leaves every other host override and
\* every host alias as it was; a Delete entry of kind CNAME does the same
\* with the host alias of that name.
C8_DeleteExactlyOne ==
    [][/\ AtDeleteAHit =>
            /\ Len(NewCalls) = 1
            /\ NewCalls[1].op = "DeleteHostOverride"
            /\ FullName(NewCalls[1].arg) = changes.Delete[i].DNSName
            /\ NewCalls[1].arg \in Elems(hostOverrides)
            /\ hostAliases' = hostAliases
            /\ NewCalls[1].ok =>
                 /\ hostOverrides' = Without(hostOverrides, NewCalls[1].arg)
                 /\ Len(hostOverrides') = Len(hostOverrides) - 1
            /\ ~NewCalls[1].ok => hostOverrides' = hostOverrides
       /\ AtDeleteCNAMEHit =>
            /\ Len(NewCalls) = 1
            /\ NewCalls[1].op = "DeleteHostAlias"
            /\ FullName(NewCalls[1].arg) = changes.Delete[i].DNSName
            /\ NewCalls[1].arg \in Elems(hostAliases)
            /\ hostOverrides' = hostOverrides
            /\ NewCalls[1].ok =>
                 /\ hostAliases' = Without(hostAliases, NewCalls[1].arg)
                 /\ Len(hostAliases') = Len(hostAliases) - 1
            /\ ~NewCalls[1].ok => hostAliases' = hostAliases]_vars

\* of two host overrides and two host aliases, the host override a.b.c and
\* the host alias b.c are deleted
C8_Witness ==
    /\ pc = "done"
    /\ err = "nil"
    /\ changes.Delete = <<Endpoint(N_abc, "A", <<IP1>>), Endpoint(N_bc, "CNAME", <<N_ac>>)>>
    /\ Len(initial[1]) = 2
    /\ Len(initial[2]) = 2
    /\ hostOverrides = <<initial[1][1]>>
    /\ hostAliases = <<initial[2][2]>>
    /\ Len(CallsFor("delete", 1)) = 1
    /\ Len(CallsFor("delete", 2)) = 1

-----------------------------------------------------------------------------
(* C9 *)

RECURSIVE Replay(_, _, _, _, _)
\* the backend after the successful calls of log, from its k-th on, on the
\* host overrides ho and host aliases ha, id being the next ID given out
Replay(ho, ha, id, log, k) ==
    IF k > Len(log) THEN <<ho, ha>>
    ELSE LET c == log[k] IN
         IF ~c.ok \/ c.op \notin MutatingOps THEN Replay(ho, ha, id, log, k + 1)
         ELSE CASE c.op = "CreateHostOverride" ->
                     Replay(Append(ho, [c.arg EXCEPT !.ID = id]), ha, id + 1, log, k + 1)
                [] c.op = "CreateHostAlias" ->
                     Replay(ho, Append(ha, [c.arg EXCEPT !.ID = id]), id + 1, log, k + 1)
                [] c.op = "UpdateHostOverride" ->
                     Replay(Replaced(ho, c.arg), ha, id, log, k + 1)
                [] c.op = "UpdateHostAlias" ->
                     Replay(ho, Replaced(ha, c.arg), id, log, k + 1)
                [] c.op = "DeleteHostOverride" ->
                     Replay(Without(ho, c.arg), ha, id, log, k + 1)
                [] c.op = "DeleteHostAlias" ->
                     Replay(ho, Without(ha, c.arg), id, log, k + 1)

\* the Update loop is at a CNAME pair whose alias, or whose new target, is
\* not in its table
AtUpdateCNAMEMiss ==
    /\ pc = "update"
    /\ changes.UpdateOld[i].RecordType = "CNAME"
    /\ \/ changes.UpdateOld[i].DNSName \notin FullNames(cnameRecordsByDNSName)
       \/ /\ Len(changes.UpdateNew[i].Targets) > 0
          /\ changes.UpdateNew[i].Targets[1] \notin FullNames(aRecordsByDNSName)

\* C9: the first error of ApplyChanges, a failed remote call or a fatal lookup
\* miss, makes it return an error at once: the failed call is the last call
\* it issues, no call undoes an earlier one, and the backend keeps every
\* mutation applied before the error.
C9_FirstErrorAborts ==
    [][/\ (Len(calls') > Len(calls) /\ ~calls'[Len(calls')].ok) =>
            /\ pc' = "done"
            /\ err' = "error"
            /\ Len(calls') = Len(calls) + 1
            /\ backend' = backend
       /\ (AtCreateCNAMEMiss \/ AtUpdateCNAMEMiss) =>
            /\ pc' = "done"
            /\ err' = "error"
            /\ calls' = calls
            /\ backend' = backend
       /\ pc = "done" =>
            /\ pc' = "done"
            /\ err' = err
            /\ calls' = calls
            /\ backend' = backend
       /\ backend' = Replay(initial[1], initial[2],
                            Len(initial[1]) + Len(initial[2]) + 1, calls', 1)]_vars

\* a delete was applied, then a create failed: the deleted record stays
\* deleted
C9_Witness ==
    /\ pc = "done"
    /\ err = "error"
    /\ last = Step("create", 1)
    /\ Len(changes.Create) = 1
    /\ Len(CallsFor("delete", 1)) = 1
    /\ CallsFor("delete", 1)[1].ok
    /\ Len(CallsFor("create", 1)) = 1
    /\ ~calls[Len(calls)].ok
    /\ Len(hostOverrides) + Len(hostAliases) = Len(initial[1]) + Len(initial[2]) - 1

-----------------------------------------------------------------------------
(* C10 *)

PhaseNo(p) ==
    CASE p = "none" -> 0
      [] p = "list" -> 1
      [] p = "listAliases" -> 2
      [] p = "delete" -> 3
      [] p = "create" -> 4
      [] p = "update" -> 5

\* entry x comes before entry y in the batch
Before(x, y) ==
    \/ PhaseNo(x.phase) < PhaseNo(y.phase)
    \/ x.phase = y.phase /\ x.idx < y.idx

\* call c mutates the record of the entry it is logged for
OfItsEntry(c) ==
    CASE c.phase = "delete" ->
           /\ c.op \in {"DeleteHostOverride", "DeleteHostAlias"}
           /\ c.idx \in DOMAIN changes.Delete
           /\ FullName(c.arg) = changes.Delete[c.idx].DNSName
      [] c.phase = "create" ->
           /\ c.op \in {"CreateHostOverride", "CreateHostAlias"}
           /\ c.idx \in DOMAIN changes.Create
           /\ FullName(c.arg) = changes.Create[c.idx].DNSName
      [] c.phase = "update" ->
           /\ c.op \in {"UpdateHostOverride", "UpdateHostAlias"}
           /\ c.idx \in DOMAIN changes.UpdateNew
           /\ FullName(c.arg) = changes.UpdateNew[c.idx].DNSName
      [] OTHER -> c.op \in ListOps

\* the log has the calls in the order of their entries, one at most for each
CallsInOrder ==
    /\ \A j, k \in DOMAIN calls : j < k => Before(calls[j], calls[k])
    /\ \A k \in DOMAIN calls : OfItsEntry(calls[k])

\* C10: ApplyChanges handles every Delete entry before any Create entry and
\* every Create entry before any Update pair, each loop in the order of its
\* list; the mutating calls are issued in that order.
C10_PhaseOrder ==
    [][/\ CallsInOrder'
       /\ last' # last =>
            Before([phase |-> last.phase, idx |-> last.i],
                   [phase |-> last'.phase, idx |-> last'.i])
       /\ (pc = "create" /\ pc' = "delete") = FALSE
       /\ (pc = "update" /\ pc' \in {"delete", "create"}) = FALSE]_vars

\* a delete and then a create, both applied
C10_Witness ==
    /\ pc = "done"
    /\ err = "nil"
    /\ Len(changes.Delete) = 1
    /\ Len(changes.Create) = 1
    /\ Len(calls) >= 2
    /\ calls[Len(calls) - 1].op = "DeleteHostAlias"
    /\ calls[Len(calls)].op = "CreateHostOverride"
    /\ calls[Len(calls) - 1].ok
    /\ calls[Len(calls)].ok

-----------------------------------------------------------------------------
(* C11 *)

\* a remote call of the last Records() failed
RecordsCallFailed == \E k \in DOMAIN recCalls : ~recCalls[k].ok

\* C11: when ListHostOverrides or a ListHostAliases call of Records() fails,
\* Records() returns the error and no endpoint list at all, and the failed
\* call is the last remote call it issues.
C11_RecordsFailsWhole ==
    RecordsCallFailed =>
        /\ recErr = "error"
        /\ recResult = NoResult
        /\ ~recCalls[Len(recCalls)].ok
        /\ \A k \in 1..(Len(recCalls) - 1) : recCalls[k].ok

\* the ListHostAliases call for the first of two host overrides fails, after
\* the endpoint of that host override was collected
C11_Witness ==
    /\ recErr = "error"
    /\ Len(hostOverrides) = 2
    /\ Len(recCalls) = 2
    /\ recCalls[1].ok
    /\ recCalls[2].op = "ListHostAliases"
    /\ ~recCalls[2].ok
    /\ recResult = NoResult

-----------------------------------------------------------------------------
(* C12 *)

\* this step is a call of AdjustEndpoints that returns
AdjustReturns == adjRuns' = adjRuns + 1 /\ adjErr' = "nil"

\* C12: the list AdjustEndpoints returns has the length and the order of the
\* list it was given; an endpoint of kind A that had one or more targets has
\* exactly one, its first; an endpoint of any other kind has its name, kind
\* and targets as before.
C12_AdjustKeepsFirstTarget ==
    [][AdjustReturns =>
         /\ Len(adjResult') = Len(endpoints)
         /\ \A k \in DOMAIN endpoints :
              /\ adjResult'[k].DNSName = endpoints[k].DNSName
              /\ adjResult'[k].RecordType = endpoints[k].RecordType
              /\ IF endpoints[k].RecordType = "A"
                 THEN Len(endpoints[k].Targets) >= 1 =>
                        adjResult'[k].Targets = <<endpoints[k].Targets[1]>>
                 ELSE adjResult'[k].Targets = endpoints[k].Targets]_vars

\* an A endpoint and a CNAME endpoint, each with two targets
C12_Witness ==
    /\ adjRuns = 1
    /\ adjErr = "nil"
    /\ adjInput = <<Endpoint(N_ac, "A", <<IP1, IP2>>), Endpoint(N_bc, "CNAME", <<IP1, IP2>>)>>
    /\ adjResult = <<Endpoint(N_ac, "A", <<IP1>>), Endpoint(N_bc, "CNAME", <<IP1, IP2>>)>>

-----------------------------------------------------------------------------
(* C13 *)

\* C13: AdjustEndpoints given a list it has returned returns that list again,
\* unchanged.
C13_AdjustIdempotent ==
    [][(adjRuns >= 1 /\ adjErr = "nil" /\ adjRuns' = adjRuns + 1) =>
         /\ adjErr' = "nil"
         /\ adjResult' = adjResult]_vars

\* the second call on a list whose first call dropped a target
C13_Witness ==
    /\ adjRuns = 2
    /\ adjErr = "nil"
    /\ adjInput = <<Endpoint(N_ac, "A", <<IP2, IP1>>), Endpoint(N_bc, "TXT", <<IP1, IP2>>)>>
    /\ adjResult = <<Endpoint(N_ac, "A", <<IP2>>), Endpoint(N_bc, "TXT", <<IP1, IP2>>)>>

-----------------------------------------------------------------------------
(* C14 *)

\* C14: AdjustEndpoints has no failure mode: given any list of endpoints, of
\* any kinds and with any number of targets, none included, it completes and
\* returns a list.
C14_AdjustNeverFails ==
    adjRuns > 0 => (adjErr = "nil" /\ adjResult # NoResult)

-----------------------------------------------------------------------------
(* C15 *)

\* the number of entries of a loop
EntriesOf(p) ==
    CASE p = "delete" -> Len(changes.Delete)
      [] p = "create" -> Len(changes.Create)
      [] p = "update" -> Len(changes.UpdateOld)

\* the loops after a loop, and the return
LaterPhases(p) ==
    CASE p = "delete" -> {"create", "update", "done"}
      [] p = "create" -> {"update", "done"}
      [] p = "update" -> {"done"}

\* this step raises no error and goes on to the next entry: of the same loop
\* if there is one, of a later loop otherwise, or it returns success
GoesOn ==
    /\ err' \in {"none", "nil"}
    /\ i < EntriesOf(pc) => (pc' = pc /\ i' = i + 1)
    /\ i = EntriesOf(pc) => pc' \in LaterPhases(pc)
    /\ pc' = "done" => err' = "nil"

\* the Delete loop is at an entry of kind A or CNAME whose name is not in the
\* table of its kind
AtDeleteMiss ==
    /\ pc = "delete"
    /\ \/ /\ changes.Delete[i].RecordType = "A"
          /\ changes.Delete[i].DNSName \notin DOMAIN aRecordsByDNSName
       \/ /\ changes.Delete[i].RecordType = "CNAME"
          /\ changes.Delete[i].DNSName \notin DOMAIN cnameRecordsByDNSName

\* the Update loop is at a pair whose old endpoint is of kind A and whose old
\* name is not in the address table
AtUpdateAMiss ==
    /\ pc = "update"
    /\ changes.UpdateOld[i].RecordType = "A"
    /\ changes.UpdateOld[i].DNSName \notin DOMAIN aRecordsByDNSName

\* C15: a Delete entry (of kind A or CNAME) whose name is not in its table,
\* and an Update pair with an old endpoint of kind A whose old name is not in
\* the address table, issue no remote call and raise no error; ApplyChanges
\* goes on with the next entry.
C15_LookupMissSkipped ==
    [][(AtDeleteMiss \/ AtUpdateAMiss) =>
         /\ calls' = calls
         /\ backend' = backend
         /\ GoesOn]_vars

\* a delete of an alias and an update of a host override, neither of them in
\* the backend: ApplyChanges lists the records and returns success
C15_Witness ==
    /\ pc = "done"
    /\ err = "nil"
    /\ last = Step("update", 1)
    /\ changes.Delete = <<Endpoint(N_abc, "CNAME", <<N_ac>>)>>
    /\ changes.UpdateOld = <<Endpoint(N_abc, "A", <<IP1>>)>>
    /\ Len(initial[1]) = 1
    /\ Len(calls) = 2
    /\ backend = initial

-----------------------------------------------------------------------------
(* C16 *)

\* C16: an Update pair with an old endpoint of kind CNAME makes ApplyChanges
\* return an error, without an UpdateHostAlias call, when the old name is not
\* in the alias table or the new endpoint's first target is not the full name
\* of a host override of the address table.
C16_UpdateAliasMissFatal ==
    [][AtUpdateCNAMEMiss =>
         /\ pc' = "done"
         /\ err' = "error"
         /\ NewCalls = <<>>
         /\ hostAliases' = hostAliases
         /\ cnameRecordsByDNSName' = cnameRecordsByDNSName]_vars

\* the alias of the pair is in the alias table, its new target is not in the
\* address table
C16_Witness ==
    /\ pc = "done"
    /\ err = "error"
    /\ last.phase = "update"
    /\ changes.UpdateOld[last.i].RecordType = "CNAME"
    /\ CallsFor("update", last.i) = <<>>
    /\ changes.UpdateOld[last.i].DNSName \in DOMAIN cnameRecordsByDNSName
    /\ Len(changes.UpdateNew[last.i].Targets) > 0
    /\ changes.UpdateNew[last.i].Targets[1] \notin DOMAIN aRecordsByDNSName

-----------------------------------------------------------------------------
(* C17 *)

\* the kind of the entry a loop is at (for the Update loop, of the old endpoint)
KindAt(p, idx) ==
    CASE p = "delete" -> changes.Delete[idx].RecordType
      [] p = "create" -> changes.Create[idx].RecordType
      [] p = "update" -> changes.UpdateOld[idx].RecordType

AtUnsupported ==
    /\ pc \in {"delete", "create", "update"}
    /\ KindAt(pc, i) \notin {"A", "CNAME"}

\* C17: in each of the three loops an entry whose kind (for an Update pair,
\* the kind of the old endpoint) is neither A nor CNAME issues no remote call,
\* raises no error, and the loop goes on with the next entry.
C17_UnsupportedSkipped ==
    [][AtUnsupported =>
         /\ calls' = calls
         /\ backend' = backend
         /\ tableVars' = tableVars
         /\ GoesOn]_vars

\* a TXT entry is deleted, then a host override is created
C17_Witness ==
    /\ pc = "done"
    /\ err = "nil"
    /\ changes.Delete = <<EndpointTXT>>
    /\ Len(changes.Create) = 1
    /\ CallsFor("delete", 1) = <<>>
    /\ Len(CallsFor("create", 1)) = 1
    /\ CallsFor("create", 1)[1].ok

-----------------------------------------------------------------------------
(* C18 *)

\* C18: Records() issues ListHostOverrides and ListHostAliases calls only,
\* never a create, update or delete call, and the host overrides and host
\* aliases of the backend are after it, failed or not, what they were before.
C18_RecordsReadsOnly ==
    [][recCalls' # recCalls =>
         /\ \A k \in DOMAIN recCalls' :
              /\ recCalls'[k].op \in ListOps
              /\ recCalls'[k].op \notin MutatingOps
         /\ recCalls'[1].op = "ListHostOverrides"
         /\ backend' = backend
         /\ nextID' = nextID]_vars

\* Records() after an ApplyChanges that changed the backend: three list
\* calls, all answered
C18_Witness ==
    /\ recErr = "nil"
    /\ pc = "done"
    /\ backend # initial
    /\ Len(hostOverrides) = 2
    /\ Len(recCalls) = 3
    /\ Len(recResult) >= 2

-----------------------------------------------------------------------------
(* C19 *)

\* this step is a successful update, by the pair the Update loop is at, that
\* changes the full name of the record
SuccessfulRename ==
    /\ pc = "update"
    /\ Len(NewCalls) = 1
    /\ NewCalls[1].ok
    /\ NewCalls[1].op \in {"UpdateHostOverride", "UpdateHostAlias"}
    /\ FullName(NewCalls[1].arg) # changes.UpdateOld[i].DNSName

\* the table the Update loop uses for the pair it is at
TableAt(kind, a, c) == IF kind = "A" THEN a ELSE c

\* C19: after a successful update that changes a record's full name, the
\* lookup table has the updated record under the new full name and no entry
\* under the old full name (so that a later pair of the batch naming the old
\* full name is a lookup miss).
C19_UpdateRekeys ==
    [][SuccessfulRename =>
         LET kind == changes.UpdateOld[i].RecordType
             table == TableAt(kind, aRecordsByDNSName', cnameRecordsByDNSName')
             new == FullName(NewCalls[1].arg)
         IN
         /\ new \in DOMAIN table
         /\ table[new] = NewCalls[1].arg
         /\ changes.UpdateOld[i].DNSName \notin DOMAIN table]_vars

-----------------------------------------------------------------------------
(* C20 *)

HostOverrideWrites == {"CreateHostOverride", "UpdateHostOverride"}
HostAliasWrites == {"CreateHostAlias", "UpdateHostAlias"}

\* the successful calls of the batch so far that wrote a record of that name
WritesOf(ops, name) ==
    {k \in DOMAIN calls :
        calls[k].ok /\ calls[k].op \in ops /\ FullName(calls[k].arg) = name}

\* the last of them
LastWrite(ops, name) ==
    CHOOSE k \in WritesOf(ops, name) : \A j \in WritesOf(ops, name) : j <= k

\* the record last written under that name was created by this batch
CreatedInBatch(ops, name) ==
    /\ WritesOf(ops, name) # {}
    /\ calls[LastWrite(ops, name)].op \in {"CreateHostOverride", "CreateHostAlias"}

\* the ID the backend gave the record created by the k-th call of the batch
AssignedID(k) ==
    Len(initial[1]) + Len(initial[2]) + 1
    + Cardinality({j \in 1..(k - 1) :
          calls[j].ok /\ calls[j].op \in {"CreateHostOverride", "CreateHostAlias"}})

\* endpoint ep has a "." in its name and a first target
WellFormed(ep) == "." \in Chars(ep.DNSName) /\ Len(ep.Targets) > 0

-----------------------------------------------------------------------------
(* C21 *)

\* a record of that name was deleted by a successful call of the batch and no
\* record of that name and kind was written since
Deleted(deleteOp, writeOps, name) ==
    /\ \E k \in DOMAIN calls :
         calls[k].ok /\ calls[k].op = deleteOp /\ FullName(calls[k].arg) = name
    /\ WritesOf(writeOps, name) = {}

-----------------------------------------------------------------------------
(* C22 *)

\* the calls of the batch that are fetches, and those that are mutations
Fetches == SelectSeq(calls, LAMBDA c : c.op \in ListOps)
Mutations == SelectSeq(calls, LAMBDA c : c.op \in MutatingOps)

\* the fetches come first: ListHostOverrides, then ListHostAliases for the
\* host overrides returned, in their order; a mutation is issued only after
\* all of them were answered; a failed fetch ends the call with an error
FetchesFirst ==
    /\ calls # <<>>
    /\ calls[1].op = "ListHostOverrides"
    /\ \A k \in DOMAIN calls : calls[k].op = "ListHostOverrides" => k = 1
    /\ \A k \in DOMAIN calls :
         calls[k].op = "ListHostAliases" =>
           /\ k - 1 \in DOMAIN listed
           /\ calls[k].arg.ID = listed[k - 1].ID
    /\ pc \in {"delete", "create", "update"} => Len(Fetches) = Len(listed) + 1
    /\ Mutations # <<>> =>
         /\ Len(Fetches) = Len(listed) + 1
         /\ \A k \in 1..(Len(listed) + 1) : calls[k].op \in ListOps /\ calls[k].ok
    /\ (\E k \in DOMAIN calls : calls[k].op \in ListOps /\ ~calls[k].ok) =>
         /\ pc = "done"
         /\ err = "error"
         /\ Mutations = <<>>
         /\ backend = initial

\* C22 as stated: every ApplyChanges call with an entry in one of its four
\* lists first re-reads the backend.
C22_NonEmptyListsFirst ==
    (pc # "idle" /\ ~AllListsEmpty) => FetchesFirst

\* C22, amended: every ApplyChanges call whose batch has a Create or a Delete
\* entry, or whose UpdateNew list differs from its UpdateOld list, first
\* re-reads the backend: its first remote call is ListHostOverrides, followed
\* by one ListHostAliases call per host override returned, all before any
\* mutating call; when one of these fetches fails it returns an error and has
\* issued no create, update or delete call. (A call whose batch has no such
\* change issues no remote call at all.)
C22_ChangesListsFirst ==
    /\ (pc # "idle" /\ HasChanges(changes)) => FetchesFirst
    /\ (pc # "idle" /\ ~HasChanges(changes)) => (calls = <<>> /\ err = "nil")

\* two host overrides: three fetches, then the first mutation
C22_Witness ==
    /\ Len(listed) = 2
    /\ Len(calls) = 4
    /\ calls[1].op = "ListHostOverrides"
    /\ calls[2].op = "ListHostAliases"
    /\ calls[3].op = "ListHostAliases"
    /\ calls[4].op \in MutatingOps
    /\ calls[4].ok

-----------------------------------------------------------------------------
(* C23 *)

\* C23: in the Update loop the table consulted and the call issued are chosen
\* by the kind of the old endpoint alone.  For an old endpoint of kind A,
\* whatever the kind of the new one, the host override found under the old
\* name is updated by UpdateHostOverride with hostname, domain and server
\* taken from the new endpoint, and no alias call is issued; for an old
\* endpoint of kind CNAME only the alias table and UpdateHostAlias are used.
C23_OldKindSelects ==
    [][pc = "update" =>
         LET oldEP == changes.UpdateOld[i]
             newEP == changes.UpdateNew[i]
         IN
         /\ oldEP.RecordType = "A" =>
              /\ \A k \in DOMAIN NewCalls : NewCalls[k].op = "UpdateHostOverride"
              /\ hostAliases' = hostAliases
              /\ cnameRecordsByDNSName' = cnameRecordsByDNSName
              /\ oldEP.DNSName \notin DOMAIN aRecordsByDNSName => NewCalls = <<>>
              /\ (oldEP.DNSName \in DOMAIN aRecordsByDNSName /\ WellFormed(newEP)) =>
                   /\ Len(NewCalls) = 1
                   /\ NewCalls[1].arg.ID = aRecordsByDNSName[oldEP.DNSName].ID
                   /\ SplitAtFirstDot(NewCalls[1].arg, newEP.DNSName)
                   /\ NewCalls[1].arg.Server = newEP.Targets[1]
         /\ oldEP.RecordType = "CNAME" =>
              /\ \A k \in DOMAIN NewCalls : NewCalls[k].op = "UpdateHostAlias"
              /\ hostOverrides' = hostOverrides
              /\ aRecordsByDNSName' = aRecordsByDNSName
              /\ oldEP.DNSName \notin DOMAIN cnameRecordsByDNSName => NewCalls = <<>>
              /\ (/\ oldEP.DNSName \in DOMAIN cnameRecordsByDNSName
                  /\ WellFormed(newEP)
                  /\ newEP.Targets[1] \in DOMAIN aRecordsByDNSName) =>
                   /\ Len(NewCalls) = 1
                   /\ NewCalls[1].arg.ID = cnameRecordsByDNSName[oldEP.DNSName].ID
                   /\ SplitAtFirstDot(NewCalls[1].arg, newEP.DNSName)
                   /\ NewCalls[1].arg.Host = newEP.Targets[1]]_vars

\* the host override a.c is updated from the CNAME endpoint b.c -> a.b.c: it
\* becomes b.c with the server a.b.c
C23_Witness ==
    /\ last.phase = "update"
    /\ changes.UpdateOld[last.i] = Endpoint(N_ac, "A", <<IP1>>)
    /\ changes.UpdateNew[last.i] = Endpoint(N_bc, "CNAME", <<N_abc>>)
    /\ Len(CallsFor("update", last.i)) = 1
    /\ CallsFor("update", last.i)[1].op = "UpdateHostOverride"
    /\ CallsFor("update", last.i)[1].ok
    /\ hostOverrides[1] = [ID |-> 1, Hostname |-> <<"b">>, Domain |-> <<"c">>, Server |-> N_abc]

-----------------------------------------------------------------------------
(* C24 *)

\* table holds exactly the records of the set, each under its full name
Mirrors(table, records) ==
    /\ DOMAIN table = {FullName(r) : r \in records}
    /\ \A k \in DOMAIN table : table[k] \in records /\ FullName(table[k]) = k
    /\ \A r \in records : table[FullName(r)] = r

\* the host aliases of the backend that are listed under a host override
ListedAliases ==
    {ha \in Elems(hostAliases) : \E ho \in Elems(hostOverrides) : ha.HostID = ho.ID}

\* C24: between two entries of an ApplyChanges call, the address table holds
\* exactly the host overrides the backend has, each under its current full
\* name, and the alias table exactly the host aliases of the backend listed
\* under a host override, each under its current full name.
C24_TablesMirrorBackend ==
    pc \in {"delete", "create", "update"} =>
        /\ Mirrors(aRecordsByDNSName, Elems(hostOverrides))
        /\ Mirrors(cnameRecordsByDNSName, ListedAliases)

-----------------------------------------------------------------------------
(* C25 *)

\* C25: every CreateHostAlias and UpdateHostAlias call carries as HostID the
\* ID of a host override the backend has at the time of the call, and the
\* alias's host is the full name that host override has at that time.
C25_AliasKeyIsCurrent ==
    [][\A k \in DOMAIN NewCalls :
         NewCalls[k].op \in HostAliasWrites =>
           \E ho \in Elems(hostOverrides) :
             /\ ho.ID = NewCalls[k].arg.HostID
             /\ FullName(ho) = NewCalls[k].arg.Host]_vars

-----------------------------------------------------------------------------
(* C26 *)

\* no two records of the list have the same full name
DistinctNames(list) ==
    \A j, k \in DOMAIN list : FullName(list[j]) = FullName(list[k]) => j = k

\* C26: when the backend has at most one host override and at most one host
\* alias per full name before an ApplyChanges call, it has so after the call,
\* successful or not, whatever the batch.
C26_NamesStayUnique ==
    (DistinctNames(initial[1]) /\ DistinctNames(initial[2])) =>
        (DistinctNames(hostOverrides) /\ DistinctNames(hostAliases))

-----------------------------------------------------------------------------
(* C27 *)

\* every host alias of the list has as HostID the ID of a host override
NoOrphans(overrides, aliases) ==
    \A k \in DOMAIN aliases : \E j \in DOMAIN overrides : aliases[k].HostID = overrides[j].ID

\* C27: from a backend in which every host alias has as HostID the ID of a
\* host override, and with a DeleteHostOverride that removes only the record
\* it is given, every host alias has after a successful ApplyChanges call as
\* HostID the ID of a host override the backend has.
C27_NoOrphanAliases ==
    (NoOrphans(initial[1], initial[2]) /\ pc = "done" /\ err = "nil") =>
        NoOrphans(hostOverrides, hostAliases)

-----------------------------------------------------------------------------
(* C28 *)

\* Records() was called after an ApplyChanges call that returned success, and
\* returned a list
RecordsAfterApply == pc = "done" /\ err = "nil" /\ recErr = "nil"

\* the names the backend had before the call, of either kind
InitialNames ==
    {FullName(r) : r \in Elems(initial[1])} \cup {FullName(r) : r \in Elems(initial[2])}

\* the batch has Create entries only, each of kind A or CNAME with exactly
\* one target and a name that has a "." and was not in the backend
CreatesOnly ==
    /\ changes.Delete = <<>>
    /\ changes.UpdateOld = <<>>
    /\ changes.Create # <<>>
    /\ \A k \in DOMAIN changes.Create :
         /\ changes.Create[k].RecordType \in {"A", "CNAME"}
         /\ Len(changes.Create[k].Targets) = 1
         /\ "." \in Chars(changes.Create[k].DNSName)
         /\ changes.Create[k].DNSName \notin InitialNames

\* the endpoints of that kind and name that Records() returned
Returned(kind, name) ==
    {k \in DOMAIN recResult :
        recResult[k].RecordType = kind /\ recResult[k].DNSName = name}

C28_DeleteWitness ==
    /\ RecordsAfterApply
    /\ Len(initial[1]) = 2
    /\ changes.Delete = <<Endpoint(N_bc, "CNAME", <<N_ac>>), Endpoint(N_abc, "A", <<IP1>>)>>
    /\ Len(Mutations) = 2
    /\ Returned("CNAME", N_bc) = {}
    /\ Returned("A", N_abc) = {}
    /\ Len(recResult) = 2

-----------------------------------------------------------------------------
(* C29 *)

\* the mutating calls issued for entry idx of phase p
MutationsFor(p, idx) ==
    SelectSeq(calls, LAMBDA c : c.op \in MutatingOps /\ c.phase = p /\ c.idx = idx)

\* no entry has more than one mutating call, and every mutating call is the
\* call of an entry of the batch
OnePerEntry ==
    /\ \A p \in {"delete", "create", "update"} :
         \A idx \in 1..PhaseLen(changes, listed, p) : Len(MutationsFor(p, idx)) <= 1
    /\ \A k \in DOMAIN calls :
         calls[k].op \in MutatingOps =>
            /\ calls[k].phase \in {"delete", "create", "update"}
            /\ calls[k].idx \in 1..PhaseLen(changes, listed, calls[k].phase)

\* a remote call that failed is the last remote call of ApplyChanges
NoCallAfterFailure ==
    \A k \in DOMAIN calls : ~calls[k].ok => k = Len(calls)

\* C29: every ApplyChanges call terminates (it is not running for ever: pc
\* leaves "idle" when the call starts and is "done" from its return on); it
\* issues at most one mutating remote call per batch entry, at most
\* |Delete| + |Create| + |UpdateOld| in all; and after a remote call failed no
\* further remote call is issued.
C29_TerminatesWithoutRetry ==
    /\ [](/\ OnePerEntry
          /\ Len(Mutations) <=
                Len(changes.Delete) + Len(changes.Create) + Len(changes.UpdateOld)
          /\ NoCallAfterFailure)
    /\ []<>(pc \in {"idle", "done"})

\* ApplyChanges returned after one mutating call per entry of a batch of two
\* entries, the second of which failed
C29_Witness ==
    /\ pc = "done"
    /\ err = "error"
    /\ Len(changes.Delete) = 1
    /\ Len(changes.UpdateOld) = 1
    /\ Len(Mutations) = 2
    /\ Mutations[1].ok
    /\ ~Mutations[2].ok

-----------------------------------------------------------------------------
(* C30 *)

\* the "result" value that means success
ExpectedResult(op) ==
    IF op \in {"DeleteHostOverride", "DeleteHostAlias"} THEN "deleted" ELSE "saved"

\* the response is rejected: its status is not 200 or its "result" is not
\* the expected one
Rejected ==
    \/ httpResponse.status # StatusOK
    \/ httpResponse.result # ExpectedResult(clientCall.op)

\* C30: a mutating call of the client returns an error whenever the HTTP
\* status is not 200 or the "result" of the response is not the expected one
\* ("saved" for create and update, "deleted" for delete), even if the body
\* parses; a create call returns the record with its ID set to the "uuid" of
\* the response on success, and the record as it was given otherwise.
C30_RejectedIsError ==
    clientCall.op \in MutatingOps =>
        /\ Rejected => clientReturn.err \notin {"nil", "none"}
        /\ clientCall.op \in {"CreateHostOverride", "CreateHostAlias"} =>
             clientReturn.rec =
                IF clientReturn.err = "nil"
                THEN [clientCall.rec EXCEPT !.ID = httpResponse.uuid]
                ELSE clientCall.rec

\* a create got a response with a status other than 200 whose body parses,
\* says "saved" and carries a uuid: it returned an error and the record
\* without the uuid
C30_Witness ==
    /\ clientCall.op = "CreateHostOverride"
    /\ clientCall.rec.ID = EmptyID
    /\ httpResponse.arrived
    /\ httpResponse.parses
    /\ httpResponse.status # StatusOK
    /\ httpResponse.result = "saved"
    /\ httpResponse.uuid # EmptyID
    /\ clientReturn.err = "request failed: status"
    /\ clientReturn.rec.ID = EmptyID

====
